---------------------------- MODULE Spec2Model ----------------------------
(***************************************************************************)
(* Model of the Mattermost bot of olvidalo/onyx:                           *)
(*   - MattermostCacheManager   (onyxbot/mattermost/cache.py)              *)
(*   - the !register command    (onyxbot/mattermost/handle_commands.py)    *)
(*   - the per-tenant websocket listener (onyxbot/mattermost/client.py)    *)
(*   - the persisted team configs and service API keys                     *)
(*     (db/mattermost_bot.py)                                              *)
(*                                                                         *)
(* Coroutines are cut at their await points.  The stores of refresh_all's  *)
(* publication (cache.py 87-91) are separate steps: the accessors are      *)
(* lock-free and are called from event handlers that run inside the        *)
(* blocking init_websocket call on a worker thread (client.py 312-321),    *)
(* so a reader can run between two stores.                                 *)
(***************************************************************************)
EXTENDS Integers, Sequences, FiniteSets, TLC

\* ------------------------------------------------------------------ bounds
\* Number of refresh_all calls a behaviour may start.
MaxCycles == 2
\* Number of service API keys that may be issued per tenant.
MaxKeyGen == 2
\* Number of register commands a behaviour may receive.
MaxCmds == 2
\* Number of parts of the keys given to the key parser on its own.
MaxKeyLen == 5
\* The limit on the length of a post that stands for MAX_MESSAGE_LENGTH
\* (constants.py 10: 16383), and the length of the longest text split.
MaxMessageLength == 5
MaxTextLen == 9
\* Length of the longest citation_info given to _append_citations.
MaxCitations == 6
\* Longest message text before the registration key, in pieces.
MaxHeadLen == 3
\* MAX_CONTEXT_MESSAGES (constants.py 11), 10 in the source, scaled.
MaxContextMessages == 2
\* Longest list of post ids get_thread returns.
MaxThreadLen == 4
\* Longest list current_channels given to sync_channel_configs.
MaxChannels == 2

\* --------------------------------------------------------- program constants
RECONNECT_DELAY == 5
MAX_RECONNECT_ATTEMPTS == 10
\* handle_message.py 269: cited_docs[:5]
CITATION_LIMIT == 5

\* ------------------------------------------------------------------ universe
Tenants == {"t1", "t2"}
\* get_all_tenant_ids returns the tenants as a list; the loop follows it.
TenantOrder == <<"t1", "t2">>
Teams == {"m1", "m2"}
Procs == {"p1", "p2"}
\* Python's None, for strings.
None == "None"
\* Values a bot config row may carry for server_url / bot_token.
Url == "https://mm"
Token == "tok"
Empty == ""

\* The persisted MattermostTeamConfig rows, one registration key each.
Rows == {"r1", "r2"}
RowTenant == [r \in Rows |-> IF r = "r1" THEN "t1" ELSE "t2"]

VARIABLES
    \* MattermostCacheManager fields (cache.py 25-30)
    team_tenants, api_keys, server_urls, bot_tokens, initialized, lock,
    \* the refresh_all coroutine: position and locals
    ra,
    \* number of refresh_all calls started, and for each map the call that
    \* built the dict object the field currently refers to
    cycle, mapCycle,
    \* storage: gated tenants, team config rows, the clock read by
    \* datetime.now, bot config rows, generation of the service API key
    gatedTenants, teamConfig, now, dbBot, dbKeyGen,
    \* command / refresh_team callers in flight, the reply of the last one
    \* that ended, and the teams whose register command was answered with
    \* the success reply
    proc, lastReply, registered,
    \* number of register commands received
    cmds,
    \* OnyxMattermostBot._running, the tenants in _drivers, and per tenant the
    \* listener task: its position, reconnect_attempts, how its last
    \* init_websocket call ended, the seconds slept since that call ended
    running, drivers, lstate, attempts, lastEnd, slept,
    \* parse_mattermost_registration_key: its argument and its result
    parseKey, parseOut,
    \* _split_message: its argument, the local content, the list chunks, and
    \* the position of the call
    splitText, splitRest, chunks, splitPc,
    \* send_response: its arguments message, thread_only_mode and content,
    \* the chunks not yet posted, the posts created, the position of the call
    sendMsg, thread_only_mode, sendContent, sendTodo, posts, sendPc,
    \* _append_citations: response.citation_info, response.top_documents, and
    \* the result
    citation_info, top_documents, citeOut,
    \* OnyxMattermostBot: the tenants in _driver_wrappers and in
    \* _websocket_tasks; the two callers of _connect_all_servers (start and
    \* the periodic task): position, tenants left, tenant being connected; the
    \* stop() coroutine
    driver_wrappers, websocket_tasks, conn, stopSt,
    \* the last call of handle_command: its text and what it returned
    cmdOut,
    \* one inbound event of tenant t1 in _handle_event: the event, the
    \* channel config row and the team's default persona in storage, the
    \* position of the handler, the ShouldRespondContext it got, and what it
    \* has done so far
    event, channel_config, default_persona_id, evPc, evCtx, evOut,
    \* _build_conversation_context: what get_thread does for the call, the
    \* argument message, and the result
    thread_data, thMessage, thContext,
    \* sync_channel_configs: the channel config rows of the team in storage,
    \* the argument current_channels, and the calls made so far
    channel_rows, current_channels, syncOut

cacheVars == <<team_tenants, api_keys, server_urls, bot_tokens, initialized>>
dbVars == <<gatedTenants, teamConfig, now, dbBot, dbKeyGen>>
listenerVars == <<running, drivers, lstate, attempts, lastEnd, slept>>
procVars == <<proc, lastReply, registered, cmds>>
vars == <<team_tenants, api_keys, server_urls, bot_tokens, initialized, lock,
          ra, cycle, mapCycle, gatedTenants, teamConfig, now, dbBot,
          dbKeyGen, proc, lastReply, registered, cmds, running, drivers,
          lstate, attempts, lastEnd, slept, parseKey,
          parseOut, splitText, splitRest, chunks, splitPc, sendMsg,
          thread_only_mode, sendContent, sendTodo, posts, sendPc,
          citation_info, top_documents, citeOut, driver_wrappers,
          websocket_tasks, conn, stopSt, cmdOut, event, channel_config,
          default_persona_id, evPc, evCtx, evOut, thread_data, thMessage,
          thContext, channel_rows, current_channels, syncOut>>
parseVars == <<parseKey, parseOut>>
splitVars == <<splitText, splitRest, chunks, splitPc>>
sendVars == <<sendMsg, thread_only_mode, sendContent, sendTodo, posts, sendPc>>
citeVars == <<citation_info, top_documents, citeOut>>
cmdVars == <<cmdOut>>
evVars == <<event, channel_config, default_persona_id, evPc, evCtx, evOut>>
threadVars == <<thread_data, thMessage, thContext>>
chanVars == <<channel_rows, current_channels, syncOut>>
fnVars == <<parseVars, splitVars, sendVars, citeVars, cmdVars, evVars,
           threadVars, chanVars>>
botVars == <<driver_wrappers, websocket_tasks, conn, stopSt>>
msgVars == <<fnVars, botVars>>

\* ---------------------------------------------------------------- dict helpers
EmptyDict == [k \in {} |-> None]
Put(d, k, v) == [x \in (DOMAIN d) \cup {k} |-> IF x = k THEN v ELSE d[x]]
Pop(d, k) == [x \in (DOMAIN d) \ {k} |-> d[x]]
\* dict.get(k) for string values (None when absent)
Get(d, k) == IF k \in DOMAIN d THEN d[k] ELSE None
\* dict.get(k) for API keys: a key is its generation number (>= 1); 0 is None
GetKey(d, k) == IF k \in DOMAIN d THEN d[k] ELSE 0
\* Python truthiness of an optional string
Truthy(s) == s # None /\ s # Empty

NoBotConfig == [present |-> FALSE, server_url |-> None, bot_token |-> None]
BotConfig(u, t) == [present |-> TRUE, server_url |-> u, bot_token |-> t]

\* ------------------------------------------------------------ _load_tenant_data
\* cache.py 141-146: the team ids of the tenant's enabled, bound team configs.
EnabledTeamIds(t) ==
    {teamConfig[r].team_id :
        r \in {x \in Rows : /\ RowTenant[x] = t
                            /\ teamConfig[x].enabled
                            /\ teamConfig[x].team_id # None}}

\* cache.py 131-156: what _load_tenant_data(tenant_id) returns; regen says
\* that get_or_create_mattermost_service_api_key issued a new key.
LoadTenantData(t) ==
    LET cached_key == GetKey(api_keys, t)
        server_url == IF dbBot[t].present THEN dbBot[t].server_url ELSE None
        bot_token  == IF dbBot[t].present THEN dbBot[t].bot_token ELSE None
        team_ids   == EnabledTeamIds(t)
    IN  IF team_ids = {}
        THEN [team_ids |-> {}, api_key |-> 0, server_url |-> server_url,
              bot_token |-> bot_token, regen |-> FALSE]
        ELSE IF cached_key = 0
        THEN [team_ids |-> team_ids, api_key |-> dbKeyGen[t] + 1,
              server_url |-> server_url, bot_token |-> bot_token,
              regen |-> TRUE]
        ELSE [team_ids |-> team_ids, api_key |-> cached_key,
              server_url |-> server_url, bot_token |-> bot_token,
              regen |-> FALSE]

\* Mutant of CommitKey: a key is issued on every load of a tenant with
\* enabled teams.
CommitKey_Always(t, res) ==
    dbKeyGen' = IF res.team_ids # {} /\ dbKeyGen[t] < MaxKeyGen
                THEN [dbKeyGen EXCEPT ![t] = @ + 1] ELSE dbKeyGen

\* mattermost_bot.py 120-148 and cache.py 152-153: the key is (re)generated
\* and committed.
CommitKey(t, res) ==
    dbKeyGen' = IF res.regen THEN [dbKeyGen EXCEPT ![t] = @ + 1] ELSE dbKeyGen

\* The load can be carried out: the key counter is capped at MaxKeyGen.
CanLoad(t) == LoadTenantData(t).regen => dbKeyGen[t] < MaxKeyGen

\* ------------------------------------------------------------------ refresh_all
RaIdle(result) ==
    [pc |-> "idle", gated |-> {}, todo |-> <<>>,
     new_team_tenants |-> EmptyDict, new_api_keys |-> EmptyDict,
     new_server_urls |-> EmptyDict, new_bot_tokens |-> EmptyDict,
     failed |-> {}, result |-> result]

\* The synchronous run of cache.py 87-91: no coroutine of the event loop runs
\* while refresh_all is inside it.
StorePcs == {"store_team", "store_keys", "store_urls", "store_tokens", "store_init"}
LoopFree == ra.pc \notin StorePcs

\* Mutant of RA_Start: the new dicts start as copies of the cache's maps.
RA_Start_KeepsOld ==
    /\ ra.pc = "idle"
    /\ lock = "free"
    /\ cycle < MaxCycles
    /\ cycle' = cycle + 1
    /\ lock' = "refresh_all"
    /\ ra' = [RaIdle("none") EXCEPT !.pc = "gated",
                                    !.new_team_tenants = team_tenants,
                                    !.new_api_keys = api_keys,
                                    !.new_server_urls = server_urls,
                                    !.new_bot_tokens = bot_tokens]
    /\ UNCHANGED <<cacheVars, mapCycle, dbVars, procVars, listenerVars, msgVars>>

\* cache.py 38-44: take the lock, create the four new dicts.
RA_Start ==
    /\ ra.pc = "idle"
    /\ lock = "free"
    /\ cycle < MaxCycles
    /\ cycle' = cycle + 1
    /\ lock' = "refresh_all"
    /\ ra' = [RaIdle("none") EXCEPT !.pc = "gated"]
    /\ UNCHANGED <<cacheVars, mapCycle, dbVars, procVars, listenerVars, msgVars>>

\* Mutant of RaiseCacheError: the failure path publishes the dicts built so far.
RaiseCacheError_Publishes ==
    /\ ra' = RaIdle("CacheError")
    /\ lock' = "free"
    /\ team_tenants' = ra.new_team_tenants
    /\ api_keys' = ra.new_api_keys
    /\ server_urls' = ra.new_server_urls
    /\ bot_tokens' = ra.new_bot_tokens
    /\ UNCHANGED <<initialized, mapCycle>>

\* cache.py 98-100: the outer except; the lock is released by the async with.
RaiseCacheError ==
    /\ ra' = RaIdle("CacheError")
    /\ lock' = "free"
    /\ UNCHANGED <<cacheVars, mapCycle>>

\* cache.py 47-51: the gated-tenant lookup, which may raise.
RA_Gated ==
    /\ ra.pc = "gated"
    /\ \/ /\ ra' = [ra EXCEPT !.pc = "list", !.gated = gatedTenants]
          /\ UNCHANGED <<cacheVars, mapCycle, lock>>
       \/ RaiseCacheError
    /\ UNCHANGED <<cycle, dbVars, procVars, listenerVars, msgVars>>

\* cache.py 53: the tenant list load, which may raise.
RA_List ==
    /\ ra.pc = "list"
    /\ \/ /\ ra' = [ra EXCEPT !.pc = IF TenantOrder = <<>> THEN "store_team" ELSE "loop",
                              !.todo = TenantOrder]
          /\ UNCHANGED <<cacheVars, mapCycle, lock>>
       \/ RaiseCacheError
    /\ UNCHANGED <<cycle, dbVars, procVars, listenerVars, msgVars>>

\* Position after the head of todo has been dealt with.
RaNext(r) ==
    [r EXCEPT !.todo = Tail(@),
              !.pc = IF Len(r.todo) = 1 THEN "store_team" ELSE "loop"]

\* Mutant of AddLoaded: server_url and bot_token are stored whatever they are.
AddLoaded_StoresFalsy(r, t, res) ==
    IF res.team_ids = {} \/ res.api_key = 0
    THEN r
    ELSE [r EXCEPT
            !.new_team_tenants =
                [m \in (DOMAIN @) \cup res.team_ids |->
                    IF m \in res.team_ids THEN t ELSE @[m]],
            !.new_api_keys = Put(@, t, res.api_key),
            !.new_server_urls = Put(@, t, res.server_url),
            !.new_bot_tokens = Put(@, t, res.bot_token)]

\* cache.py 63-81: what a successful load adds to the new dicts.
AddLoaded(r, t, res) ==
    IF res.team_ids = {} \/ res.api_key = 0
    THEN r
    ELSE [r EXCEPT
            !.new_team_tenants =
                [m \in (DOMAIN @) \cup res.team_ids |->
                    IF m \in res.team_ids THEN t ELSE @[m]],
            !.new_api_keys = Put(@, t, res.api_key),
            !.new_server_urls =
                IF Truthy(res.server_url) THEN Put(@, t, res.server_url) ELSE @,
            !.new_bot_tokens =
                IF Truthy(res.bot_token) THEN Put(@, t, res.bot_token) ELSE @]

\* Mutant of SkipFailedTenant: a tenant's failure ends the whole cycle.
SkipFailedTenant_Aborts(t) ==
    /\ ra' = RaIdle("CacheError")
    /\ lock' = "free"
    /\ UNCHANGED <<cacheVars, mapCycle, dbKeyGen>>

\* cache.py 82-83: the inner except: the tenant is skipped.
SkipFailedTenant(t) ==
    /\ ra' = RaNext([ra EXCEPT !.failed = @ \cup {t}])
    /\ UNCHANGED <<lock, cacheVars, mapCycle, dbKeyGen>>

\* cache.py 54-85: one iteration of the loop over the tenants.
RA_Tenant ==
    /\ ra.pc = "loop"
    /\ LET t == Head(ra.todo) IN
        \/ /\ t \in ra.gated
           /\ ra' = RaNext(ra)
           /\ UNCHANGED <<lock, cacheVars, mapCycle, dbKeyGen>>
        \/ /\ t \notin ra.gated
           /\ CanLoad(t)
           /\ ra' = RaNext(AddLoaded(ra, t, LoadTenantData(t)))
           /\ CommitKey(t, LoadTenantData(t))
           /\ UNCHANGED <<lock, cacheVars, mapCycle>>
        \/ /\ t \notin ra.gated
           /\ SkipFailedTenant(t)
    /\ UNCHANGED <<cycle, gatedTenants, teamConfig, now, dbBot, procVars, listenerVars, msgVars>>

\* cache.py 87-91: publication, one store per step; the last one returns.
RA_Publish ==
    /\ ra.pc \in StorePcs
    /\ \/ /\ ra.pc = "store_team"
          /\ team_tenants' = ra.new_team_tenants
          /\ mapCycle' = [mapCycle EXCEPT !.team = cycle]
          /\ ra' = [ra EXCEPT !.pc = "store_keys"]
          /\ UNCHANGED <<api_keys, server_urls, bot_tokens, initialized, lock>>
       \/ /\ ra.pc = "store_keys"
          /\ api_keys' = ra.new_api_keys
          /\ mapCycle' = [mapCycle EXCEPT !.keys = cycle]
          /\ ra' = [ra EXCEPT !.pc = "store_urls"]
          /\ UNCHANGED <<team_tenants, server_urls, bot_tokens, initialized, lock>>
       \/ /\ ra.pc = "store_urls"
          /\ server_urls' = ra.new_server_urls
          /\ mapCycle' = [mapCycle EXCEPT !.urls = cycle]
          /\ ra' = [ra EXCEPT !.pc = "store_tokens"]
          /\ UNCHANGED <<team_tenants, api_keys, bot_tokens, initialized, lock>>
       \/ /\ ra.pc = "store_tokens"
          /\ bot_tokens' = ra.new_bot_tokens
          /\ mapCycle' = [mapCycle EXCEPT !.tokens = cycle]
          /\ ra' = [ra EXCEPT !.pc = "store_init"]
          /\ UNCHANGED <<team_tenants, api_keys, server_urls, initialized, lock>>
       \/ /\ ra.pc = "store_init"
          /\ initialized' = TRUE
          /\ ra' = RaIdle("ok")
          /\ lock' = "free"
          /\ UNCHANGED <<team_tenants, api_keys, server_urls, bot_tokens, mapCycle>>
    /\ UNCHANGED <<cycle, dbVars, procVars, listenerVars, msgVars>>

\* ----------------------------------------------------------------- refresh_team
\* The TeamConfig rows and the cache as a command found them.
NoSnapshot == [present |-> FALSE]
Snapshot ==
    [present |-> TRUE, rows |-> teamConfig, team_tenants |-> team_tenants,
     api_keys |-> api_keys, server_urls |-> server_urls, bot_tokens |-> bot_tokens]

ProcIdle ==
    [pc |-> "idle", cmd |-> "none", team |-> None, tenant |-> None, key |-> <<>>,
     row |-> None, res |-> None, wasRegistered |-> FALSE, keyWasBound |-> FALSE,
     before |-> NoSnapshot]

\* The detail of an exception that is no RegistrationError (its str()).
ErrorDetail == "OperationalError: connection refused"

\* handle_commands.py 93-116 and 173-187: the message of the RegistrationError
\* raised on each rejection path (line breaks written as blanks, quoting
\* marks left out).
RegistrationErrorText ==
    [Usage |-> "Invalid registration key format. Usage: !register <key>",
     AlreadyRegistered |-> "This team is already registered with Onyx. OnyxBot can only connect one Mattermost team to one Onyx workspace.",
     InvalidFormat |-> "Invalid registration key format. Please check the key and try again.",
     KeyNotFound |-> "Registration key not found. The key may have expired or been deleted. Please generate a new one from the Onyx admin panel.",
     KeyUsed |-> "This registration key has already been used. Each key can only be used once. Please generate a new key from the Onyx admin panel."]

\* Mutant of registration_reply: the generic reply quotes the exception.
registration_reply_Leaks(reply, detail) ==
    IF reply \in DOMAIN RegistrationErrorText
    THEN <<":x: **Registration failed.** ", RegistrationErrorText[reply]>>
    ELSE IF reply = "Generic"
    THEN <<":x: **Registration failed.** ", detail>>
    ELSE IF reply = "Success"
    THEN <<":white_check_mark: **Successfully registered!** ",
           "This team is now connected to Onyx.">>
    ELSE <<>>

\* handle_commands.py 123-151: the message posted by the register command,
\* as the pieces it is put together from: the success message, the failure
\* header with the text of the RegistrationError, or the failure header with
\* the fixed text for any other exception (whose detail is only logged).
registration_reply(reply, detail) ==
    IF reply \in DOMAIN RegistrationErrorText
    THEN <<":x: **Registration failed.** ", RegistrationErrorText[reply]>>
    ELSE IF reply = "Generic"
    THEN <<":x: **Registration failed.** ",
           "An unexpected error occurred. Please try again later.">>
    ELSE IF reply = "Success"
    THEN <<":white_check_mark: **Successfully registered!** ",
           "This team is now connected to Onyx.">>
    ELSE <<>>

\* The end of a command or call: what its caller or its user receives.
Reply(p, cmd, team, key, reply, wasReg, bound) ==
    [cmd |-> cmd, team |-> team, key |-> key, reply |-> reply,
     wasRegistered |-> wasReg, keyWasBound |-> bound,
     text |-> IF cmd = "register" THEN registration_reply(reply, ErrorDetail) ELSE <<>>,
     error |-> IF cmd = "register" /\ reply = "Generic" THEN ErrorDetail ELSE None,
     before |-> IF p = None THEN NoSnapshot
                ELSE IF proc[p].pc = "idle" THEN Snapshot ELSE proc[p].before]

\* cache.py 102-104: a direct call of refresh_team(team_id, tenant_id), which
\* then waits for the lock.
RT_Call(p, team, tenant) ==
    /\ proc[p].pc = "idle"
    /\ proc' = [proc EXCEPT ![p] =
                  [ProcIdle EXCEPT !.pc = "rt_lock", !.cmd = "refresh_team",
                                   !.team = team, !.tenant = tenant]]
    /\ UNCHANGED <<cacheVars, lock, ra, cycle, mapCycle, dbVars, lastReply,
                   registered, cmds, listenerVars, msgVars>>

\* cache.py 104: async with self._lock.
RT_Acquire(p) ==
    /\ proc[p].pc = "rt_lock"
    /\ lock = "free"
    /\ lock' = p
    /\ proc' = [proc EXCEPT ![p].pc = "rt_load"]
    /\ UNCHANGED <<cacheVars, ra, cycle, mapCycle, dbVars, lastReply,
                   registered, cmds, listenerVars, msgVars>>

\* What the caller of refresh_team does when it ends: the register command
\* posts its reply (handle_commands.py 124-151), a direct caller returns.
RtEnd(p, ok) ==
    /\ proc' = [proc EXCEPT ![p] = ProcIdle]
    /\ lastReply' = Reply(p, proc[p].cmd, proc[p].team, proc[p].key,
                          IF proc[p].cmd = "register"
                          THEN (IF ok THEN "Success" ELSE "Generic")
                          ELSE (IF ok THEN "returned" ELSE "raised"),
                          proc[p].wasRegistered, proc[p].keyWasBound)
    /\ registered' = IF proc[p].cmd = "register" /\ ok
                     THEN registered \cup {proc[p].team} ELSE registered

\* cache.py 107-109: _load_tenant_data under the lock; when it raises the
\* exception leaves refresh_team and the lock is released.
RT_Load(p) ==
    /\ proc[p].pc = "rt_load"
    /\ \/ /\ CanLoad(proc[p].tenant)
          /\ proc' = [proc EXCEPT ![p].pc = "rt_merge",
                                  ![p].res = LoadTenantData(proc[p].tenant)]
          /\ CommitKey(proc[p].tenant, LoadTenantData(proc[p].tenant))
          /\ UNCHANGED <<lock, lastReply, registered>>
       \/ /\ RtEnd(p, FALSE)
          /\ lock' = "free"
          /\ UNCHANGED dbKeyGen
    /\ UNCHANGED <<cacheVars, ra, cycle, mapCycle, gatedTenants, teamConfig,
                   now, dbBot, cmds, listenerVars, msgVars>>

\* Mutant of MergeTeam: the route is stored in a new dict.
MergeTeam_Replaces(team, tenant, res) ==
    IF team \in res.team_ids
    THEN /\ team_tenants' = Put(EmptyDict, team, tenant)
         /\ api_keys' = IF res.api_key # 0
                        THEN Put(api_keys, tenant, res.api_key) ELSE api_keys
         /\ server_urls' = IF Truthy(res.server_url)
                           THEN Put(server_urls, tenant, res.server_url)
                           ELSE server_urls
         /\ bot_tokens' = IF Truthy(res.bot_token)
                          THEN Put(bot_tokens, tenant, res.bot_token)
                          ELSE bot_tokens
    ELSE UNCHANGED <<team_tenants, api_keys, server_urls, bot_tokens>>

\* cache.py 111-121: the merge into the existing dicts.
MergeTeam(team, tenant, res) ==
    IF team \in res.team_ids
    THEN /\ team_tenants' = Put(team_tenants, team, tenant)
         /\ api_keys' = IF res.api_key # 0
                        THEN Put(api_keys, tenant, res.api_key) ELSE api_keys
         /\ server_urls' = IF Truthy(res.server_url)
                           THEN Put(server_urls, tenant, res.server_url)
                           ELSE server_urls
         /\ bot_tokens' = IF Truthy(res.bot_token)
                          THEN Put(bot_tokens, tenant, res.bot_token)
                          ELSE bot_tokens
    ELSE UNCHANGED <<team_tenants, api_keys, server_urls, bot_tokens>>

RT_Merge(p) ==
    /\ proc[p].pc = "rt_merge"
    /\ LoopFree
    /\ MergeTeam(proc[p].team, proc[p].tenant, proc[p].res)
    /\ lock' = "free"
    /\ RtEnd(p, TRUE)
    /\ UNCHANGED <<initialized, ra, cycle, mapCycle, dbVars, cmds, listenerVars, msgVars>>

\* cache.py 176-178
remove_team(team) ==
    /\ LoopFree
    /\ team_tenants' = Pop(team_tenants, team)
    /\ UNCHANGED <<api_keys, server_urls, bot_tokens, initialized, lock, ra,
                   cycle, mapCycle, dbVars, procVars, listenerVars, msgVars>>

\* cache.py 198-204
clear ==
    /\ LoopFree
    /\ team_tenants' = EmptyDict
    /\ api_keys' = EmptyDict
    /\ server_urls' = EmptyDict
    /\ bot_tokens' = EmptyDict
    /\ initialized' = FALSE
    /\ UNCHANGED <<lock, ra, cycle, mapCycle, dbVars, procVars, listenerVars, msgVars>>

\* cache.py 160-162
get_tenant(team) == Get(team_tenants, team)

\* cache.py 184-196
get_all_tenants_with_bots ==
    {<<t, Get(server_urls, t), Get(bot_tokens, t)>> :
        t \in {x \in DOMAIN bot_tokens :
                  Truthy(Get(server_urls, x)) /\ Truthy(Get(bot_tokens, x))}}

\* ------------------------------------------------------------ the register command
\* A registration key is the sequence of its parts; "mattermost_" is the prefix.
Prefix == "mattermost_"
Dot == "."
KeyOf(r) == <<Prefix, RowTenant[r], Dot, r>>
\* A key without a '.' after the prefix.
MalformedKey == <<Prefix, "t1">>
\* A well-formed key of tenant t1 that no row has.
UnknownKey == <<Prefix, "t1", Dot, "x">>
\* The texts that follow "!register " in the commands of the model; <<>> is
\* a command without a key.
CommandKeys == {KeyOf(r) : r \in Rows} \cup {MalformedKey, <<>>}

\* Mutant of parse_mattermost_registration_key: the key is split on its last dot.
parse_key_LastDot(key) ==
    IF key = <<>> \/ Head(key) # Prefix
    THEN <<>>
    ELSE LET rest == Tail(key)
             dots == {i \in 1..Len(rest) : rest[i] = Dot}
         IN  IF dots = {}
             THEN <<>>
             ELSE LET last == CHOOSE i \in dots : \A j \in dots : i >= j
                  IN  SubSeq(rest, 1, last - 1)

\* handle_commands.py 31-49; <<>> stands for None.
parse_mattermost_registration_key(key) ==
    IF key = <<>> \/ Head(key) # Prefix
    THEN <<>>
    ELSE LET rest == Tail(key)
             dots == {i \in 1..Len(rest) : rest[i] = Dot}
         IN  IF dots = {}
             THEN <<>>
             ELSE LET first == CHOOSE i \in dots : \A j \in dots : i <= j
                  IN  SubSeq(rest, 1, first - 1)

\* mattermost_bot.py 204-213, in the schema of the tenant
get_team_config_by_registration_key(tenant, key) ==
    {r \in Rows : RowTenant[r] = tenant /\ KeyOf(r) = key}

\* handle_commands.py 88-116: the command up to the call of _register_team;
\* a rejection posts its reply (134-140).
handle_registration_command(p, team, key) ==
    LET tenant_id == parse_mattermost_registration_key(key)
        wasReg == team \in registered
        bound == \E r \in Rows : KeyOf(r) = key /\ teamConfig[r].team_id # None
        reject(reply) ==
            /\ lastReply' = Reply(p, "register", team, key, reply, wasReg, bound)
            /\ UNCHANGED proc
    IN  IF key = <<>> THEN reject("Usage")
        ELSE IF get_tenant(team) # None THEN reject("AlreadyRegistered")
        ELSE IF tenant_id = <<>> THEN reject("InvalidFormat")
        ELSE /\ proc' = [proc EXCEPT ![p] =
                           [ProcIdle EXCEPT !.pc = "sync_register",
                                            !.cmd = "register",
                                            !.team = team, !.key = key,
                                            !.tenant = tenant_id[1],
                                            !.wasRegistered = wasReg,
                                            !.keyWasBound = bound,
                                            !.before = Snapshot]]
             /\ UNCHANGED lastReply

\* handle_commands.py 64-66: caller p receives a register command with the
\* key as its argument.
Reg_Start(p, team, key) ==
    /\ proc[p].pc = "idle"
    /\ cmds < MaxCmds
    /\ handle_registration_command(p, team, key)
    /\ cmds' = cmds + 1
    /\ UNCHANGED <<cacheVars, lock, ra, cycle, mapCycle, dbVars, registered,
                   listenerVars, msgVars>>

\* Mutant of Reg_Lookup: the check that the key is unused is missing.
Reg_Lookup_NoUsedCheck(p) ==
    /\ proc[p].pc = "sync_register"
    /\ LET found == get_team_config_by_registration_key(proc[p].tenant, proc[p].key)
       IN  IF found = {}
           THEN /\ lastReply' = Reply(p, "register", proc[p].team, proc[p].key,
                                      "KeyNotFound", proc[p].wasRegistered,
                                      proc[p].keyWasBound)
                /\ proc' = [proc EXCEPT ![p] = ProcIdle]
           ELSE /\ proc' = [proc EXCEPT ![p].pc = "commit",
                                        ![p].row = CHOOSE x \in found : TRUE]
                /\ UNCHANGED lastReply
    /\ UNCHANGED <<cacheVars, lock, ra, cycle, mapCycle, dbVars, registered,
                   cmds, listenerVars, msgVars>>

\* handle_commands.py 171-187: the look-up and the checks of _sync_register.
Reg_Lookup(p) ==
    /\ proc[p].pc = "sync_register"
    /\ LET found == get_team_config_by_registration_key(proc[p].tenant, proc[p].key)
           reject(reply) ==
               /\ lastReply' = Reply(p, "register", proc[p].team, proc[p].key, reply,
                                     proc[p].wasRegistered, proc[p].keyWasBound)
               /\ proc' = [proc EXCEPT ![p] = ProcIdle]
       IN  IF found = {} THEN reject("KeyNotFound")
           ELSE LET r == CHOOSE x \in found : TRUE
                IN  IF teamConfig[r].team_id # None THEN reject("KeyUsed")
                    ELSE /\ proc' = [proc EXCEPT ![p].pc = "commit", ![p].row = r]
                         /\ UNCHANGED lastReply
    /\ UNCHANGED <<cacheVars, lock, ra, cycle, mapCycle, dbVars, registered,
                   cmds, listenerVars, msgVars>>

\* handle_commands.py 189-199: the update of the row and the commit; then
\* _register_team calls refresh_team (204).
Reg_Commit(p) ==
    /\ proc[p].pc = "commit"
    /\ teamConfig' = [teamConfig EXCEPT ![proc[p].row] =
                        [@ EXCEPT !.team_id = proc[p].team,
                                  !.team_name = <<"Team", proc[p].team>>,
                                  !.registered_at = now]]
    /\ now' = now + 1
    /\ proc' = [proc EXCEPT ![p].pc = "rt_lock"]
    /\ UNCHANGED <<cacheVars, lock, ra, cycle, mapCycle, gatedTenants, dbBot,
                   dbKeyGen, lastReply, registered, cmds, listenerVars, msgVars>>

\* ------------------------------------------------------- the websocket listener
coreVars == <<cacheVars, lock, ra, cycle, mapCycle, dbVars, procVars>>

\* The callers of _connect_all_servers: start() and the periodic task.
Callers == {"start", "periodic"}
\* A caller that is not running; seen is the number of refresh_all calls it
\* has waited for, and the sets tell what its last round over the tenants
\* did (afterFailure: the tenants attempted after an attempt had failed;
\* replaced: the tenants for which it stored a connection and a listener
\* task over an entry whose listener task had not ended; haltedSkipped: the
\* tenants it passed over after their listener task had ended).
ConnIdle(pc, seen) ==
    [pc |-> pc, seen |-> seen, todo |-> <<>>, cur |-> None,
     snapshot |-> {}, attempted |-> {}, skipped |-> {}, failed |-> {},
     afterFailure |-> {}, replaced |-> {}, haltedSkipped |-> {}]
StopIdle ==
    [pc |-> "idle", tasksTodo |-> {}, tasksAtStop |-> {}, driversAtStop |-> {},
     tried |-> {}, raised |-> {}]

\* The positions of a listener task that has been created and has not ended.
LivePcs == {"check", "listening", "backoff"}

\* client.py 286-298: _connect_server stores the driver and the wrapper and
\* creates the listener task (305: no attempts yet).
StoreConnection(t) ==
    /\ drivers' = drivers \cup {t}
    /\ driver_wrappers' = driver_wrappers \cup {t}
    /\ websocket_tasks' = websocket_tasks \cup {t}
    /\ lstate' = [lstate EXCEPT ![t] = "check"]
    /\ attempts' = [attempts EXCEPT ![t] = 0]

\* client.py 242-243 and 250-298: a tenant without a driver is connected.
Connect(t) ==
    /\ running
    /\ t \notin drivers
    /\ StoreConnection(t)
    /\ UNCHANGED <<running, lastEnd, slept, conn, stopSt, coreVars, fnVars>>

\* Mutant of L_Check: the loop condition does not test the attempt counter.
L_Check_NoCeiling(t) ==
    /\ lstate[t] = "check"
    /\ lstate' = [lstate EXCEPT ![t] = IF running THEN "listening" ELSE "stopped"]
    /\ UNCHANGED <<running, drivers, attempts, lastEnd, slept, coreVars, msgVars>>

\* client.py 307 and 337-340: the loop condition; when it is false the task ends.
L_Check(t) ==
    /\ lstate[t] = "check"
    /\ lstate' = [lstate EXCEPT ![t] =
                    IF running /\ attempts[t] < MAX_RECONNECT_ATTEMPTS
                    THEN "listening" ELSE "stopped"]
    /\ UNCHANGED <<running, drivers, attempts, lastEnd, slept, coreVars, msgVars>>

\* client.py 318-325: init_websocket returns without an exception.
L_Disconnect(t) ==
    /\ lstate[t] = "listening"
    /\ attempts' = [attempts EXCEPT ![t] = 0]
    /\ lastEnd' = [lastEnd EXCEPT ![t] = "clean"]
    /\ slept' = [slept EXCEPT ![t] = 0]
    /\ lstate' = [lstate EXCEPT ![t] = "check"]
    /\ UNCHANGED <<running, drivers, coreVars, msgVars>>

\* client.py 327-335: init_websocket raises; the task sleeps unless the
\* ceiling is reached.
L_Error(t) ==
    /\ lstate[t] = "listening"
    /\ attempts' = [attempts EXCEPT ![t] = @ + 1]
    /\ lastEnd' = [lastEnd EXCEPT ![t] = "error"]
    /\ slept' = [slept EXCEPT ![t] = 0]
    /\ lstate' = [lstate EXCEPT ![t] =
                    IF attempts[t] + 1 < MAX_RECONNECT_ATTEMPTS
                    THEN "backoff" ELSE "check"]
    /\ UNCHANGED <<running, drivers, coreVars, msgVars>>

\* Mutant of L_Wake: the delay does not grow with the attempt counter.
L_Wake_FixedDelay(t) ==
    /\ lstate[t] = "backoff"
    /\ slept' = [slept EXCEPT ![t] = RECONNECT_DELAY]
    /\ lstate' = [lstate EXCEPT ![t] = "check"]
    /\ UNCHANGED <<running, drivers, attempts, lastEnd, coreVars, msgVars>>

\* client.py 335: the sleep of RECONNECT_DELAY * reconnect_attempts ends.
L_Wake(t) ==
    /\ lstate[t] = "backoff"
    /\ slept' = [slept EXCEPT ![t] = RECONNECT_DELAY * attempts[t]]
    /\ lstate' = [lstate EXCEPT ![t] = "check"]
    /\ UNCHANGED <<running, drivers, attempts, lastEnd, coreVars, msgVars>>

\* ------------------------------------------------- start and the periodic task
\* The orders in which a for loop can meet the members of a set.
RECURSIVE Orders(_)
Orders(S) ==
    IF S = {} THEN {<<>>}
    ELSE UNION {{<<x>> \o rest : rest \in Orders(S \ {x})} : x \in S}

\* client.py 239: _connect_all_servers takes the tenant list of the cache
\* once; caller c starts its round over it.
BeginRound(c, order) ==
    [conn[c] EXCEPT !.pc = "connect", !.seen = cycle, !.todo = order, !.cur = None,
                    !.snapshot = {order[i] : i \in DOMAIN order},
                    !.attempted = {}, !.skipped = {}, !.failed = {},
                    !.afterFailure = {}]

\* Mutant of AfterFailure: a failed connect ends the round.
AfterFailure_Aborts(todo) == <<>>

\* client.py 245-248: the exception of _connect_server is caught and logged
\* inside the loop body, which goes on with the tenants left.
AfterFailure(todo) == Tail(todo)

\* client.py 170: start() awaits the first refresh_all.
Start_Refresh ==
    /\ conn["start"].pc = "refresh"
    /\ cycle = conn["start"].seen
    /\ RA_Start

\* client.py 170-178: when refresh_all raised, start() raises; otherwise the
\* flag is set, the periodic task is created and start() takes the tenant
\* list for its own _connect_all_servers.
Start_Run ==
    /\ conn["start"].pc = "refresh"
    /\ cycle > conn["start"].seen
    /\ ra.pc = "idle"
    /\ IF ra.result = "ok"
       THEN /\ running' = TRUE
            /\ \E order \in Orders({x[1] : x \in get_all_tenants_with_bots}) :
                  conn' = [conn EXCEPT !["start"] = BeginRound("start", order),
                                       !["periodic"] = ConnIdle("sleep", cycle)]
       ELSE /\ conn' = [conn EXCEPT !["start"].pc = "failed", !["start"].seen = cycle]
            /\ UNCHANGED running
    /\ UNCHANGED <<drivers, lstate, attempts, lastEnd, slept, driver_wrappers,
                   websocket_tasks, stopSt, coreVars, fnVars>>

\* Between the first two cycles the storage that refresh_all reads changes
\* for a connected tenant: the tenant becomes gated (cache.py 46-56), its
\* bot config is removed (133-136), or its team configs are disabled
\* (139-146). One tenant is gated or disabled in a behaviour.
BecomeIneligible(t) ==
    /\ running
    /\ t \in drivers
    /\ stopSt.pc = "idle"
    /\ conn["periodic"].pc = "sleep"
    /\ cycle = conn["periodic"].seen
    /\ cycle = 1
    /\ ra.pc = "idle"
    /\ gatedTenants = {}
    /\ \A r \in Rows : teamConfig[r].enabled
    /\ \/ /\ t \notin gatedTenants
          /\ gatedTenants' = gatedTenants \cup {t}
          /\ UNCHANGED <<dbBot, teamConfig>>
       \/ /\ dbBot[t].present
          /\ dbBot' = [dbBot EXCEPT ![t] = NoBotConfig]
          /\ UNCHANGED <<gatedTenants, teamConfig>>
       \/ /\ EnabledTeamIds(t) # {}
          /\ teamConfig' = [r \in Rows |->
                               IF RowTenant[r] = t
                               THEN [teamConfig[r] EXCEPT !.enabled = FALSE]
                               ELSE teamConfig[r]]
          /\ UNCHANGED <<gatedTenants, dbBot>>
    /\ UNCHANGED <<now, dbKeyGen, cacheVars, lock, ra, cycle, mapCycle, procVars,
                   listenerVars, botVars, fnVars>>

\* client.py 229-232: after its sleep the periodic task awaits refresh_all.
Periodic_Refresh ==
    /\ conn["periodic"].pc = "sleep"
    /\ cycle = conn["periodic"].seen
    /\ RA_Start

\* Mutant of Periodic_Run: the entries of the tenants that are not in the
\* tenant list are dropped.
Periodic_Run_Prunes ==
    /\ conn["periodic"].pc = "sleep"
    /\ cycle > conn["periodic"].seen
    /\ ra.pc = "idle"
    /\ IF ra.result = "ok"
       THEN /\ \E order \in Orders({x[1] : x \in get_all_tenants_with_bots}) :
                  conn' = [conn EXCEPT !["periodic"] = BeginRound("periodic", order)]
            /\ drivers' = drivers \cap {x[1] : x \in get_all_tenants_with_bots}
            /\ driver_wrappers' = driver_wrappers \cap {x[1] : x \in get_all_tenants_with_bots}
            /\ websocket_tasks' = websocket_tasks \cap {x[1] : x \in get_all_tenants_with_bots}
       ELSE /\ conn' = [conn EXCEPT !["periodic"].seen = cycle]
            /\ UNCHANGED <<drivers, driver_wrappers, websocket_tasks>>
    /\ UNCHANGED <<running, lstate, attempts, lastEnd, slept, stopSt,
                   coreVars, fnVars>>

\* client.py 231-235: a refresh_all that raised is logged and the loop sleeps
\* again; after one that returned, _connect_all_servers takes the tenant
\* list.
Periodic_Run ==
    /\ conn["periodic"].pc = "sleep"
    /\ cycle > conn["periodic"].seen
    /\ ra.pc = "idle"
    /\ IF ra.result = "ok"
       THEN \E order \in Orders({x[1] : x \in get_all_tenants_with_bots}) :
               conn' = [conn EXCEPT !["periodic"] = BeginRound("periodic", order)]
       ELSE conn' = [conn EXCEPT !["periodic"].seen = cycle]
    /\ UNCHANGED <<listenerVars, driver_wrappers, websocket_tasks, stopSt,
                   coreVars, fnVars>>

\* Mutant of CA_Next: a tenant whose listener task has ended is connected
\* again.
CA_Next_ReconnectsEnded(c) ==
    /\ conn[c].pc = "connect"
    /\ LoopFree
    /\ IF conn[c].todo = <<>>
       THEN conn' = [conn EXCEPT ![c].pc = IF c = "start" THEN "done" ELSE "sleep"]
       ELSE LET t == Head(conn[c].todo) IN
            IF t \in drivers /\ lstate[t] \in LivePcs
            THEN conn' = [conn EXCEPT ![c].todo = Tail(@), ![c].skipped = @ \cup {t}]
            ELSE conn' = [conn EXCEPT ![c].pc = "login", ![c].cur = t,
                                      ![c].attempted = @ \cup {t},
                                      ![c].afterFailure =
                                          IF conn[c].failed = {} THEN @ ELSE @ \cup {t}]
    /\ UNCHANGED <<listenerVars, driver_wrappers, websocket_tasks, stopSt,
                   coreVars, fnVars>>

\* client.py 241-246: the loop of _connect_all_servers. With no tenant left
\* the round is over; a tenant with a driver is passed over; for any other
\* _connect_server is called and reaches its await of login.
CA_Next(c) ==
    /\ conn[c].pc = "connect"
    /\ LoopFree
    /\ IF conn[c].todo = <<>>
       THEN conn' = [conn EXCEPT ![c].pc = IF c = "start" THEN "done" ELSE "sleep"]
       ELSE LET t == Head(conn[c].todo) IN
            IF t \in drivers
            THEN conn' = [conn EXCEPT ![c].todo = Tail(@), ![c].skipped = @ \cup {t},
                                      ![c].haltedSkipped =
                                          IF lstate[t] = "stopped" THEN @ \cup {t} ELSE @]
            ELSE conn' = [conn EXCEPT ![c].pc = "login", ![c].cur = t,
                                      ![c].attempted = @ \cup {t},
                                      ![c].afterFailure =
                                          IF conn[c].failed = {} THEN @ ELSE @ \cup {t}]
    /\ UNCHANGED <<listenerVars, driver_wrappers, websocket_tasks, stopSt,
                   coreVars, fnVars>>

\* client.py 280: login returns, or raises and the attempt is over with
\* nothing stored.
CA_Login(c) ==
    /\ conn[c].pc = "login"
    /\ LoopFree
    /\ \/ conn' = [conn EXCEPT ![c].pc = "get_user"]
       \/ conn' = [conn EXCEPT ![c].pc = "connect", ![c].cur = None,
                               ![c].todo = AfterFailure(@),
                               ![c].failed = @ \cup {conn[c].cur}]
    /\ UNCHANGED <<listenerVars, driver_wrappers, websocket_tasks, stopSt,
                   coreVars, fnVars>>

\* client.py 283-298: get_user returns and the connection is stored, in
\* place of one stored meanwhile by the other caller; or it raises.
CA_GetUser(c) ==
    /\ conn[c].pc = "get_user"
    /\ LoopFree
    /\ \/ /\ StoreConnection(conn[c].cur)
          /\ conn' = [conn EXCEPT ![c].pc = "connect", ![c].cur = None,
                                  ![c].todo = Tail(@),
                                  ![c].replaced =
                                      IF conn[c].cur \in websocket_tasks
                                         /\ lstate[conn[c].cur] \in LivePcs
                                      THEN @ \cup {conn[c].cur} ELSE @]
       \/ /\ conn' = [conn EXCEPT ![c].pc = "connect", ![c].cur = None,
                                  ![c].todo = AfterFailure(@),
                                  ![c].failed = @ \cup {conn[c].cur}]
          /\ UNCHANGED <<drivers, driver_wrappers, websocket_tasks, lstate, attempts>>
    /\ UNCHANGED <<running, lastEnd, slept, stopSt, coreVars, fnVars>>


\* client.py 186: stop() clears the running flag; it runs after start()
\* has returned (client.py 440-449).
Stop_Flag ==
    /\ running
    /\ stopSt.pc = "idle"
    /\ conn["start"].pc = "done"
    /\ LoopFree
    /\ running' = FALSE
    /\ stopSt' = [stopSt EXCEPT !.pc = "cancel_periodic"]
    /\ UNCHANGED <<drivers, lstate, attempts, lastEnd, slept, driver_wrappers,
                   websocket_tasks, conn, coreVars, fnVars>>

\* client.py 189-194: the periodic task, if there is one, is cancelled and
\* awaited: it ends at the await it is at, also inside refresh_all, whose
\* async with releases the lock.
Stop_CancelPeriodic ==
    /\ stopSt.pc = "cancel_periodic"
    /\ LoopFree
    /\ stopSt' = [stopSt EXCEPT !.pc = "cancel_tasks",
                                !.tasksTodo = websocket_tasks,
                                !.tasksAtStop = websocket_tasks]
    /\ IF conn["periodic"].pc = "none"
       THEN UNCHANGED <<conn, ra, lock>>
       ELSE /\ conn' = [conn EXCEPT !["periodic"].pc = "cancelled"]
            /\ IF ra.pc # "idle"
               THEN /\ ra' = RaIdle("cancelled")
                    /\ lock' = "free"
               ELSE UNCHANGED <<ra, lock>>
    /\ UNCHANGED <<cacheVars, cycle, mapCycle, dbVars, procVars, listenerVars,
                   driver_wrappers, websocket_tasks, fnVars>>

\* client.py 197-202: stop() cancels a listener task of the table and awaits
\* it; a task that has ended stays as it is.
Stop_Cancel(t) ==
    /\ stopSt.pc = "cancel_tasks"
    /\ t \in stopSt.tasksTodo
    /\ LoopFree
    /\ lstate' = [lstate EXCEPT ![t] =
                    IF @ \in {"check", "listening", "backoff"} THEN "cancelled" ELSE @]
    /\ stopSt' = [stopSt EXCEPT !.tasksTodo = @ \ {t}]
    /\ UNCHANGED <<running, drivers, attempts, lastEnd, slept, driver_wrappers,
                   websocket_tasks, conn, coreVars, fnVars>>

\* Mutant of Stop_Disconnect: the first disconnect that raises ends the loop.
Stop_Disconnect_Aborts ==
    /\ stopSt.pc = "cancel_tasks"
    /\ stopSt.tasksTodo = {}
    /\ LoopFree
    /\ \E bad \in SUBSET drivers :
          stopSt' = [stopSt EXCEPT !.pc = "close",
                                   !.driversAtStop = drivers,
                                   !.tried = IF bad = {} THEN drivers ELSE bad,
                                   !.raised = bad]
    /\ drivers' = {}
    /\ driver_wrappers' = {}
    /\ websocket_tasks' = {}
    /\ UNCHANGED <<running, lstate, attempts, lastEnd, slept, conn, coreVars, fnVars>>

\* client.py 204-214: with every task awaited, disconnect is called on each
\* driver, whether or not an earlier call raised, and the three tables are
\* cleared; no await lies in between.
Stop_Disconnect ==
    /\ stopSt.pc = "cancel_tasks"
    /\ stopSt.tasksTodo = {}
    /\ LoopFree
    /\ \E bad \in SUBSET drivers :
          stopSt' = [stopSt EXCEPT !.pc = "close",
                                   !.driversAtStop = drivers,
                                   !.tried = drivers,
                                   !.raised = bad]
    /\ drivers' = {}
    /\ driver_wrappers' = {}
    /\ websocket_tasks' = {}
    /\ UNCHANGED <<running, lstate, attempts, lastEnd, slept, conn, coreVars, fnVars>>

\* client.py 216-225: api_client.close() is awaited; when it returns the
\* executor is shut down and the cache is cleared (cache.py 198-204); when it
\* raises, stop() raises.
Stop_Close ==
    /\ stopSt.pc = "close"
    /\ LoopFree
    /\ \/ /\ stopSt' = [stopSt EXCEPT !.pc = "done"]
          /\ team_tenants' = EmptyDict
          /\ api_keys' = EmptyDict
          /\ server_urls' = EmptyDict
          /\ bot_tokens' = EmptyDict
          /\ initialized' = FALSE
       \/ /\ stopSt' = [stopSt EXCEPT !.pc = "raised"]
          /\ UNCHANGED cacheVars
    /\ UNCHANGED <<lock, ra, cycle, mapCycle, dbVars, procVars, listenerVars,
                   driver_wrappers, websocket_tasks, conn, fnVars>>

\* -------------------------------------------------------------------- behaviours
UnboundRow(enabled) ==
    [team_id |-> None, team_name |-> None, registered_at |-> 0, enabled |-> enabled]

ListenerIdle ==
    /\ running = FALSE
    /\ drivers = {}
    /\ lstate = [t \in Tenants |-> "none"]
    /\ attempts = [t \in Tenants |-> 0]
    /\ lastEnd = [t \in Tenants |-> "none"]
    /\ slept = [t \in Tenants |-> 0]

BoundRow(team, at, enabled) ==
    [team_id |-> team, team_name |-> <<"Team", team>>, registered_at |-> at,
     enabled |-> enabled]

CacheEmpty ==
    /\ team_tenants = EmptyDict
    /\ api_keys = EmptyDict
    /\ server_urls = EmptyDict
    /\ bot_tokens = EmptyDict
    /\ initialized = FALSE
    /\ lock = "free"
    /\ ra = RaIdle("none")
    /\ cycle = 0
    /\ mapCycle = [team |-> 0, keys |-> 0, urls |-> 0, tokens |-> 0]
    /\ proc = [p \in Procs |-> ProcIdle]
    /\ lastReply = Reply(None, "none", None, <<>>, "none", FALSE, FALSE)
    /\ registered = {}
    /\ cmds = 0

\* ---------------------------------- parse_mattermost_registration_key on its own
\* The parts a key given to the parser is made of: the prefix, the dot, and
\* two texts without a dot.
KeyTokens == {Prefix, Dot, "t1", "x"}
Keys == UNION {[1..n -> KeyTokens] : n \in 0..MaxKeyLen}

\* The call returns.
ParseKey ==
    /\ ~parseOut.done
    /\ parseOut' = [done |-> TRUE,
                    tenant_id |-> parse_mattermost_registration_key(parseKey)]
    /\ UNCHANGED <<parseKey, splitVars, sendVars, citeVars, coreVars, listenerVars, botVars,
                   cmdVars, evVars, threadVars, chanVars>>

\* A storage without registrations, for the behaviours that do not read it.
StorageIdle ==
    /\ gatedTenants = {}
    /\ teamConfig = [r \in Rows |-> UnboundRow(TRUE)]
    /\ now = 1
    /\ dbBot = [t \in Tenants |-> BotConfig(Url, Token)]
    /\ dbKeyGen = [t \in Tenants |-> 0]

\* ------------------------------------------------------------- _split_message
\* A text is the sequence of its characters; these are the characters the
\* separators are made of, and one other.
NL == "\n"
Chars == {"a", " ", NL, "."}
\* Mutant of Separators: the space is tried first.
Separators_SpaceFirst == << <<" ">>, <<NL, NL>>, <<NL>>, <<".", " ">> >>

\* handle_message.py 382: the separators, in the order they are tried.
Separators == << <<NL, NL>>, <<NL>>, <<".", " ">>, <<" ">> >>

\* str.rfind(sep, 0, end): the 0-based index of the last occurrence of sep
\* that lies within content[0:end], or -1.
rfind(content, sep, end) ==
    LET stop == IF end < Len(content) THEN end ELSE Len(content)
        hits == {i \in 0..(stop - Len(sep)) :
                    SubSeq(content, i + 1, i + Len(sep)) = sep}
    IN  IF hits = {} THEN 0 - 1
        ELSE CHOOSE i \in hits : \A j \in hits : j <= i

\* Mutant of split_at: the separator is searched in the whole content.
split_at_Unbounded(content) ==
    LET good == {k \in 1..Len(Separators) :
                    rfind(content, Separators[k], Len(content))
                        > MaxMessageLength \div 2}
    IN  IF good = {} THEN MaxMessageLength
        ELSE LET k == CHOOSE x \in good : \A y \in good : x <= y
             IN  rfind(content, Separators[k], Len(content)) + Len(Separators[k])

\* handle_message.py 381-386: the split point of a content longer than the limit.
split_at(content) ==
    LET good == {k \in 1..Len(Separators) :
                    rfind(content, Separators[k], MaxMessageLength)
                        > MaxMessageLength \div 2}
    IN  IF good = {} THEN MaxMessageLength
        ELSE LET k == CHOOSE x \in good : \A y \in good : x <= y
             IN  rfind(content, Separators[k], MaxMessageLength) + Len(Separators[k])

\* handle_message.py 375-389: one evaluation of the while condition and, when
\* it holds, one pass through the loop body.
SplitStep ==
    /\ splitPc = "loop"
    /\ IF splitRest = <<>>
       THEN /\ splitPc' = "done"
            /\ UNCHANGED <<splitRest, chunks>>
       ELSE IF Len(splitRest) <= MaxMessageLength
       THEN /\ chunks' = Append(chunks, splitRest)
            /\ splitPc' = "done"
            /\ UNCHANGED splitRest
       ELSE /\ chunks' = Append(chunks, SubSeq(splitRest, 1, split_at(splitRest)))
            /\ splitRest' = SubSeq(splitRest, split_at(splitRest) + 1, Len(splitRest))
            /\ UNCHANGED splitPc
    /\ UNCHANGED <<splitText, parseVars, sendVars, citeVars, coreVars, listenerVars, botVars,
                   cmdVars, evVars, threadVars, chanVars>>

\* No call of _split_message is in progress.
SplitIdle ==
    /\ splitText = <<>>
    /\ splitRest = <<>>
    /\ chunks = <<>>
    /\ splitPc = "none"

\* handle_message.py 372-391: the list of chunks the loop of SplitStep builds.
RECURSIVE _split_message(_)
_split_message(content) ==
    IF content = <<>> THEN <<>>
    ELSE IF Len(content) <= MaxMessageLength THEN <<content>>
    ELSE <<SubSeq(content, 1, split_at(content))>>
            \o _split_message(SubSeq(content, split_at(content) + 1, Len(content)))

\* -------------------------------------------------------------- send_response
\* The messages replied to: a fresh post, and a reply in the thread of "root1".
PostId == "post1"
SendMessages == {[post_id |-> PostId, root_id |-> r] : r \in {"", "root1"}}
\* handle_message.py 51-54: MattermostMessage.is_thread
is_thread(message) == message.root_id # ""

\* Mutant of reply_root: thread_only_mode is tested before is_thread.
reply_root_ThreadOnlyFirst(message, mode) ==
    LET root_id == IF mode THEN message.post_id
                   ELSE IF is_thread(message) THEN message.root_id
                   ELSE ""
    IN  IF root_id # "" THEN root_id ELSE None

\* handle_message.py 354-362 and 368: the root_id argument of create_post.
reply_root(message, mode) ==
    LET root_id == IF is_thread(message) THEN message.root_id
                   ELSE IF mode THEN message.post_id
                   ELSE ""
    IN  IF root_id # "" THEN root_id ELSE None

\* handle_message.py 351: the content is split.
Send_Split ==
    /\ sendPc = "split"
    /\ sendTodo' = _split_message(sendContent)
    /\ sendPc' = "post"
    /\ UNCHANGED <<sendMsg, thread_only_mode, sendContent, posts>>
    /\ UNCHANGED <<parseVars, splitVars, citeVars, coreVars, listenerVars, botVars,
                   cmdVars, evVars, threadVars, chanVars>>

\* handle_message.py 364-369: the loop over the chunks; create_post returns
\* or raises, and an exception leaves send_response.
Send_Post ==
    /\ sendPc = "post"
    /\ IF sendTodo = <<>>
       THEN /\ sendPc' = "done"
            /\ UNCHANGED <<sendTodo, posts>>
       ELSE \/ /\ posts' = Append(posts,
                              [message |-> Head(sendTodo),
                               root_id |-> reply_root(sendMsg, thread_only_mode)])
               /\ sendTodo' = Tail(sendTodo)
               /\ UNCHANGED sendPc
            \/ /\ sendPc' = "raised"
               /\ UNCHANGED <<sendTodo, posts>>
    /\ UNCHANGED <<sendMsg, thread_only_mode, sendContent>>
    /\ UNCHANGED <<parseVars, splitVars, citeVars, coreVars, listenerVars, botVars,
                   cmdVars, evVars, threadVars, chanVars>>

\* No call of send_response is in progress.
SendIdle ==
    /\ sendMsg = [post_id |-> "", root_id |-> ""]
    /\ thread_only_mode = FALSE
    /\ sendContent = <<>>
    /\ sendTodo = <<>>
    /\ posts = <<>>
    /\ sendPc = "none"

\* ----------------------------------------------------------- _append_citations
\* response.top_documents of the model: one document with a link and one
\* without; "d2" is the id of no document.
TopDocuments ==
    << [document_id |-> "d1", semantic_identifier |-> "Doc 1", link |-> "http://d1"],
       [document_id |-> "d3", semantic_identifier |-> "", link |-> ""] >>
CitationNumbers == 1..3
Citations == [citation_number : CitationNumbers, document_id : {"d1", "d2"}]

\* handle_message.py 247-254: the first document with the citation's id.
MatchingDocs(citation, documents) ==
    {i \in 1..Len(documents) :
        documents[i].document_id = citation.document_id}

\* handle_message.py 245-262: cited_docs, in the order of citation_info.
RECURSIVE cited_docs(_, _)
cited_docs(info, documents) ==
    IF info = <<>> THEN <<>>
    ELSE LET citation == info[Len(info)]
             before == cited_docs(SubSeq(info, 1, Len(info) - 1),
                                  documents)
             found == MatchingDocs(citation, documents)
         IN  IF found = {} THEN before
             ELSE LET doc == documents[CHOOSE i \in found : \A j \in found : i <= j]
                  IN  Append(before,
                             [num |-> citation.citation_number,
                              name |-> IF doc.semantic_identifier # ""
                                       THEN doc.semantic_identifier ELSE "Source",
                              link |-> doc.link])

\* list.sort(key=lambda x: x[0]): stable, ascending by citation number.
RECURSIVE sort_by_number(_)
sort_by_number(docs) ==
    IF docs = <<>> THEN <<>>
    ELSE LET x == docs[Len(docs)]
             sorted == sort_by_number(SubSeq(docs, 1, Len(docs) - 1))
             keep == Cardinality({i \in 1..Len(sorted) : sorted[i].num <= x.num})
         IN  SubSeq(sorted, 1, keep) \o <<x>> \o SubSeq(sorted, keep + 1, Len(sorted))

\* Mutant of citation_entries: cited_docs is not sorted.
citation_entries_Unsorted(info, documents) ==
    IF info = <<>> \/ documents = <<>> THEN <<>>
    ELSE LET docs == cited_docs(info, documents)
         IN  SubSeq(docs, 1, IF Len(docs) < CITATION_LIMIT THEN Len(docs)
                             ELSE CITATION_LIMIT)

\* handle_message.py 242-273: the entries of the citations block that
\* _append_citations appends to the answer; <<>> when it returns the answer
\* as it is.
citation_entries(info, documents) ==
    IF info = <<>> \/ documents = <<>> THEN <<>>
    ELSE LET docs == sort_by_number(cited_docs(info, documents))
         IN  SubSeq(docs, 1, IF Len(docs) < CITATION_LIMIT THEN Len(docs)
                             ELSE CITATION_LIMIT)

\* The call returns.
AppendCitations ==
    /\ ~citeOut.done
    /\ citeOut' = [done |-> TRUE,
                   entries |-> citation_entries(citation_info, top_documents)]
    /\ UNCHANGED <<citation_info, top_documents>>
    /\ UNCHANGED <<parseVars, splitVars, sendVars, coreVars, listenerVars, botVars,
                   cmdVars, evVars, threadVars, chanVars>>

\* No call of _append_citations is in progress.
CiteIdle ==
    /\ citation_info = <<>>
    /\ top_documents = <<>>
    /\ citeOut = [done |-> FALSE, entries |-> <<>>]

\* ------------------------------------------------ _build_conversation_context
\* Post ids of the thread, and the user ids of their authors: the bot and a
\* user whose id is longer than the eight characters kept in the label.
PostIds == 1..MaxThreadLen
BotUserSeq == <<"b", "o", "t">>
LongUser == <<"u", "s", "e", "r", "0", "0", "0", "0", "1">>
ThreadUsers == {BotUserSeq, LongUser}
NoneContext == [isNone |-> TRUE, formatted |-> <<>>]

\* Sequences of distinct post ids.
Distinct(seq) == \A i, j \in 1..Len(seq) : i # j => seq[i] # seq[j]
ThreadOrders ==
    {o \in UNION {[1..n -> PostIds] : n \in 0..MaxThreadLen} : Distinct(o)}

\* Python seq[-k:], k > 0.
slice_last(seq, k) ==
    SubSeq(seq, IF Len(seq) > k THEN Len(seq) - k + 1 ELSE 1, Len(seq))

\* Python seq[:k].
slice_first(seq, k) == SubSeq(seq, 1, IF Len(seq) > k THEN k ELSE Len(seq))

\* handle_message.py 312-318: the label of a post's author.
username_of(user_id, bot_user_id) ==
    IF user_id = bot_user_id THEN <<"OnyxBot">>
    ELSE <<"user_">> \o slice_first(user_id, 8)

\* handle_message.py 283-336. data.result says whether get_thread raised,
\* returned nothing, or returned the thread.
_build_thread_context(message, data, bot_user_id) ==
    IF message.root_id = "" THEN NoneContext
    ELSE IF data.result # "data" THEN NoneContext
    ELSE LET recent == slice_last(data.order, MaxContextMessages)
             kept == SelectSeq(recent, LAMBDA post_id : post_id # message.post_id)
             formatted == [i \in 1..Len(kept) |->
                             [username |-> username_of(data.posts[kept[i]], bot_user_id),
                              post |-> kept[i]]]
         IN  IF formatted = <<>> THEN NoneContext
             ELSE [isNone |-> FALSE, formatted |-> formatted]

\* handle_message.py 229-238.
_build_conversation_context(message, data, bot_user_id) ==
    IF message.is_thread /\ message.root_id # ""
    THEN _build_thread_context(message, data, bot_user_id)
    ELSE NoneContext

\* The call returns.
BuildConversationContext ==
    /\ ~thContext.done
    /\ thContext' = [done |-> TRUE,
                     context |-> _build_conversation_context(thMessage, thread_data,
                                                             BotUserSeq)]
    /\ UNCHANGED <<thread_data, thMessage>>
    /\ UNCHANGED <<parseVars, splitVars, sendVars, citeVars, coreVars,
                   listenerVars, botVars, cmdVars, evVars, chanVars>>

\* No call of _build_conversation_context on its own is in progress.
ThreadIdle ==
    /\ thread_data = [result |-> "empty", order |-> <<>>,
                      posts |-> [p \in PostIds |-> BotUserSeq]]
    /\ thMessage = [post_id |-> 1, root_id |-> "", is_thread |-> FALSE]
    /\ thContext = [done |-> FALSE, context |-> NoneContext]


\* -------------------------------------------------------- sync_channel_configs
\* Channel ids, names and types of the model; a channel view and a channel
\* config row carry an id, a name and a type.
ChannelIds == {"c1", "c2", "c3"}
ChannelNames == {"n1", "n2"}
ChannelTypes == {"O", "P"}
ChannelViews ==
    [channel_id : ChannelIds, channel_name : ChannelNames, channel_type : ChannelTypes]
\* The rows of one team config: at most one per channel id.
ChannelRowSets ==
    {rows \in SUBSET ChannelViews :
        \A r1, r2 \in rows : r1.channel_id = r2.channel_id => r1 = r2}
NoCounts == <<0, 0, 0>>

\* db/mattermost_bot.py 408-410: the dict built from the list keeps, for a
\* channel id, the last view with that id.
current_channel_map(current, id) ==
    current[CHOOSE i \in DOMAIN current :
               /\ current[i].channel_id = id
               /\ \A j \in DOMAIN current : current[j].channel_id = id => j <= i]

\* Mutant of sync_channel_configs: the type of a channel is not compared.
sync_channel_configs_NameOnly(existing_configs, current) ==
    LET current_channel_ids == {current[i].channel_id : i \in DOMAIN current}
        existing_channel_ids == {c.channel_id : c \in existing_configs}
        to_add == current_channel_ids \ existing_channel_ids
        to_remove == existing_channel_ids \ current_channel_ids
        kept == {c \in existing_configs : c.channel_id \in current_channel_ids}
        changed == {c \in kept :
                       c.channel_name # current_channel_map(current, c.channel_id).channel_name}
    IN  [rows |-> {current_channel_map(current, id) : id \in to_add}
                  \cup {[c EXCEPT !.channel_name =
                                    current_channel_map(current, c.channel_id).channel_name] :
                           c \in kept},
         counts |-> <<Cardinality(to_add),
                      Cardinality({c \in existing_configs : c.channel_id \in to_remove}),
                      Cardinality(changed)>>]

\* db/mattermost_bot.py 395-446: the rows of the team after the call and the
\* counts it returns.
sync_channel_configs(existing_configs, current) ==
    LET current_channel_ids == {current[i].channel_id : i \in DOMAIN current}
        existing_channel_ids == {c.channel_id : c \in existing_configs}
        to_add == current_channel_ids \ existing_channel_ids
        to_remove == existing_channel_ids \ current_channel_ids
        kept == {c \in existing_configs : c.channel_id \in current_channel_ids}
        changed == {c \in kept :
                       \/ c.channel_name # current_channel_map(current, c.channel_id).channel_name
                       \/ c.channel_type # current_channel_map(current, c.channel_id).channel_type}
    IN  [rows |-> {current_channel_map(current, id) : id \in to_add}
                  \cup {[c EXCEPT !.channel_name =
                                    current_channel_map(current, c.channel_id).channel_name,
                                  !.channel_type =
                                    current_channel_map(current, c.channel_id).channel_type] :
                           c \in kept},
         counts |-> <<Cardinality(to_add),
                      Cardinality({c \in existing_configs : c.channel_id \in to_remove}),
                      Cardinality(changed)>>]

\* handle_commands.py 280-309: one call of sync_team_channels; it commits
\* and returns the counts, or the session raises and nothing is committed.
SyncTeamChannels ==
    /\ syncOut.calls < 2
    /\ \/ LET res == sync_channel_configs(channel_rows, current_channels)
          IN  /\ channel_rows' = res.rows
              /\ syncOut' = [calls |-> syncOut.calls + 1, returned |-> TRUE,
                             counts |-> res.counts, before |-> channel_rows,
                             earlier |-> syncOut.returned]
       \/ /\ UNCHANGED channel_rows
          /\ syncOut' = [calls |-> syncOut.calls + 1, returned |-> FALSE,
                         counts |-> NoCounts, before |-> channel_rows,
                         earlier |-> syncOut.returned]
    /\ UNCHANGED current_channels
    /\ UNCHANGED <<parseVars, splitVars, sendVars, citeVars, coreVars,
                   listenerVars, botVars, cmdVars, evVars, threadVars>>

\* No call of sync_team_channels has been made.
ChanIdle ==
    /\ channel_rows = {}
    /\ current_channels = <<>>
    /\ syncOut = [calls |-> 0, returned |-> FALSE, counts |-> NoCounts,
                  before |-> {}, earlier |-> FALSE]


\* No call of parse_mattermost_registration_key on its own is in progress.
ParseIdle ==
    /\ parseKey = <<>>
    /\ parseOut = [done |-> FALSE, tenant_id |-> <<>>]

\* --------------------------------------------------------------- handle_command
\* constants.py 18-20
REGISTER_COMMAND == "register"
SYNC_CHANNELS_COMMAND == "sync-channels"

\* A message text is a sequence of pieces: the command prefix, a command
\* word, a blank, another word, or the pieces of a registration key.
TextTokens == {"!", REGISTER_COMMAND, SYNC_CHANNELS_COMMAND, " ", "x"}
TextHeads == UNION {[1..n -> TextTokens] : n \in 0..MaxHeadLen}
CommandTexts ==
    TextHeads \cup
    {h \o <<" ">> \o k : h \in TextHeads, k \in {KeyOf("r1"), MalformedKey, UnknownKey}}

\* The texts of the commands that follow a first one: the register command
\* with each key and without one, the sync-channels command, a question,
\* and a text that begins with the register command word.
FollowUpTexts ==
    {<<"!", REGISTER_COMMAND, " ">> \o k : k \in {KeyOf("r1"), MalformedKey, UnknownKey}}
    \cup {<<"!", REGISTER_COMMAND>>, <<"!", SYNC_CHANNELS_COMMAND>>, <<"x">>,
          <<"!", REGISTER_COMMAND, "x", " ">> \o KeyOf("r1")}

\* str.strip(): the blanks at both ends are dropped.
RECURSIVE strip(_)
strip(text) ==
    IF text = <<>> THEN <<>>
    ELSE IF Head(text) = " " THEN strip(Tail(text))
    ELSE IF text[Len(text)] = " " THEN strip(SubSeq(text, 1, Len(text) - 1))
    ELSE text

\* str.startswith
startswith(content, prefix) ==
    /\ Len(content) >= Len(prefix)
    /\ SubSeq(content, 1, Len(prefix)) = prefix

\* handle_commands.py 91 and 97: content.split(maxsplit=1), and parts[1]
\* stripped; <<>> when there is one part only. content has no blank at
\* either end.
RECURSIVE split_rest(_)
split_rest(content) ==
    IF content = <<>> THEN <<>>
    ELSE IF Head(content) = " " THEN strip(content)
    ELSE split_rest(Tail(content))

\* Mutant of command_of: a command is the command word alone or the command
\* word followed by a blank.
command_of_WholeWord(content) ==
    LET word(w) == /\ startswith(content, <<"!", w>>)
                   /\ (Len(content) = 2 \/ content[3] = " ")
    IN  IF word(REGISTER_COMMAND) THEN REGISTER_COMMAND
        ELSE IF word(SYNC_CHANNELS_COMMAND) THEN SYNC_CHANNELS_COMMAND
        ELSE "none"

\* handle_commands.py 63-79: the handler that handle_command runs for the
\* stripped text, "none" where it returns False.
command_of(content) ==
    IF ~startswith(content, <<"!">>) THEN "none"
    ELSE IF startswith(content, <<"!", REGISTER_COMMAND>>) THEN REGISTER_COMMAND
    ELSE IF startswith(content, <<"!", SYNC_CHANNELS_COMMAND>>) THEN SYNC_CHANNELS_COMMAND
    ELSE "none"

\* db/mattermost_bot.py 194-201, in the session of a tenant: the rows of the
\* tenant bound to the team.
get_team_config_by_mattermost_id(tenant, team) ==
    {r \in Rows : RowTenant[r] = tenant /\ teamConfig[r].team_id = team}

\* Mutant of handle_sync_channels_command: the team config is looked up also
\* when the cache has no tenant for the team.
handle_sync_channels_command_NoTenantCheck(p, team, tenant_id) ==
    \E reply \in {IF get_team_config_by_mattermost_id(tenant_id, team) = {}
                  THEN "ConfigNotFound" ELSE "SyncInfo", "Unexpected"} :
        lastReply' = Reply(p, SYNC_CHANNELS_COMMAND, team, <<>>, reply,
                           team \in registered, FALSE)

\* handle_commands.py 211-274: the reply of handle_sync_channels_command; the
\* lookup of the team config may raise.
handle_sync_channels_command(p, team, tenant_id) ==
    \E reply \in {IF tenant_id = None THEN "NotRegistered"
                  ELSE IF get_team_config_by_mattermost_id(tenant_id, team) = {}
                       THEN "ConfigNotFound" ELSE "SyncInfo"}
                 \cup (IF tenant_id = None THEN {} ELSE {"Unexpected"}) :
        lastReply' = Reply(p, SYNC_CHANNELS_COMMAND, team, <<>>, reply,
                           team \in registered, FALSE)

\* handle_commands.py 52-79: handle_command for a message of the team with
\* the given text.
HandleCommand(p, team, text) ==
    /\ proc[p].pc = "idle"
    /\ cmds < MaxCmds
    /\ cmds' = cmds + 1
    /\ LET content == strip(text)
           handler == command_of(content)
       IN  /\ cmdOut' = [text |-> text, returned |-> handler # "none",
                         handler |-> handler]
           /\ IF handler = REGISTER_COMMAND
              THEN handle_registration_command(p, team, split_rest(content))
              ELSE IF handler = SYNC_CHANNELS_COMMAND
              THEN /\ handle_sync_channels_command(p, team, get_tenant(team))
                   /\ UNCHANGED proc
              ELSE UNCHANGED <<proc, lastReply>>
    /\ UNCHANGED <<cacheVars, lock, ra, cycle, mapCycle, dbVars, registered,
                   listenerVars, botVars, parseVars, splitVars, sendVars,
                   citeVars, evVars, threadVars,
                   chanVars>>


\* ---------------------------------------------------------------- _handle_event
\* ShouldRespondContext.persona_id is None (handle_message.py 25-30);
\* persona ids are the integers from 0 on.
NoPersona == -1

\* Python a or b for an optional persona id: None and 0 are falsy.
persona_or(a, b) == IF a # NoPersona /\ a # 0 THEN a ELSE b


\* No ShouldRespondContext yet.
NoCtx == [present |-> FALSE]
\* No channel config row for the event's team and channel.
NoChannelConfig == [present |-> FALSE]
\* What _handle_event has done: whether should_respond was called, the
\* reactions added, the posts created, the texts sent to the answer service
\* and the commands handed to handle_command; the step that raised, if one
\* did; and of send_error_response whether it tried to remove the reaction,
\* whether it tried to post, and the posts it created.
NoEffects ==
    [reached |-> FALSE, reactions |-> 0, posts |-> 0, asked |-> <<>>, commands |-> <<>>,
     failure |-> "none", removeTried |-> FALSE, apologyTried |-> FALSE,
     apologies |-> <<>>]

\* handle_message.py 405
ErrorMsg == "Sorry, I encountered an error processing your message. Please try again or contact your administrator."

\* Mutant of handler_except: only json.JSONDecodeError is caught.
handler_except_DecodeOnly(exc) ==
    IF exc = "JSONDecodeError" THEN "done" ELSE "raised"

\* client.py 412-415: the except clauses of _handle_event log the
\* exception; the handler returns.
handler_except(exc) ==
    IF exc = "JSONDecodeError" THEN "done" ELSE "done"

\* Mutant of error_root_id: the thread root, also outside a thread.
error_root_id_ThreadRoot(message) == message.root_id

\* handle_message.py 409: the root_id of the apology.
error_root_id(message) ==
    IF is_thread(message) THEN message.root_id ELSE message.post_id

\* The user id that _connect_server stored for the bot of tenant t1
\* (client.py 283-289), read at client.py 367.
BotUserId == "bot"
EventTenant == "t1"

\* Texts of the posts: empty, blank, a question, the two commands, and an
\* unknown command.
EventTexts ==
    {<<>>, <<" ">>, <<"x">>, <<"!", REGISTER_COMMAND, " ">> \o KeyOf("r1"),
     <<"!", SYNC_CHANNELS_COMMAND>>, <<"!", "x">>}

\* The websocket events: a string that json.loads rejects or that is no
\* object (valid false), or an envelope with its event type and the fields
\* of the nested post, whose JSON may be malformed (post_ok false).
Events ==
    {[valid |-> FALSE]} \cup
    [valid : {TRUE}, event : {"posted", "typing"}, post_ok : BOOLEAN,
     user_id : {BotUserId, "u1"}, message : EventTexts, root_id : {"", "root1"},
     mentions : {{}, {BotUserId}}]

ChannelConfigs ==
    {NoChannelConfig} \cup
    [present : {TRUE}, enabled : BOOLEAN, require_bot_invocation : BOOLEAN,
     thread_only_mode : BOOLEAN, persona_override_id : {NoPersona, 0, 2}]

\* handle_message.py 56-99: the message of a posted event.
from_websocket_event(ev) ==
    [post_id |-> PostId, channel_id |-> "c1", team_id |-> "m1",
     user_id |-> ev.user_id, message |-> ev.message, root_id |-> ev.root_id,
     mentions |-> ev.mentions]

\* Mutant of passes_filter: the bot's own posts are not discarded.
passes_filter_NoOwnCheck(ev, bot_user_id) ==
    /\ ev.valid
    /\ ev.event = "posted"
    /\ ev.post_ok
    /\ strip(from_websocket_event(ev).message) # <<>>

\* client.py 358-376: the event is decoded, is a posted event whose post
\* decodes, is not the bot's own and has text other than blanks; anything
\* else returns or raises into the handler's except clauses.
passes_filter(ev, bot_user_id) ==
    /\ ev.valid
    /\ ev.event = "posted"
    /\ ev.post_ok
    /\ from_websocket_event(ev).user_id # bot_user_id
    /\ strip(from_websocket_event(ev).message) # <<>>

\* Mutant of check_implicit_invocation: a thread is no invocation.
check_implicit_invocation_Never(message) == FALSE

\* handle_message.py 154-166
check_implicit_invocation(message) == is_thread(message)

\* handle_message.py 122-125 and 144-151
ShouldRespondContext(respond, persona_id, thread_only) ==
    [present |-> TRUE, should_respond |-> respond, persona_id |-> persona_id,
     thread_only_mode |-> thread_only]

\* handle_message.py 107-151
should_respond(message, tenant_id, bot_user_id) ==
    LET bot_mentioned == bot_user_id \in message.mentions
        rows == get_team_config_by_mattermost_id(tenant_id, message.team_id)
        team_found == rows # {} /\ \A r \in rows : teamConfig[r].enabled
        channel == IF team_found THEN channel_config ELSE NoChannelConfig
    IN  IF ~team_found \/ ~channel.present
        THEN ShouldRespondContext(FALSE, NoPersona, FALSE)
        ELSE IF ~channel.enabled
        THEN ShouldRespondContext(FALSE, NoPersona, FALSE)
        ELSE IF /\ channel.require_bot_invocation
                /\ ~bot_mentioned
                /\ ~check_implicit_invocation(message)
        THEN ShouldRespondContext(FALSE, NoPersona, FALSE)
        ELSE ShouldRespondContext(
                 TRUE,
                 persona_or(channel.persona_override_id, default_persona_id),
                 channel.thread_only_mode)

\* client.py 358-376: _handle_event up to its first await.
HE_Decode ==
    /\ evPc = "start"
    /\ \/ /\ ~event.valid
          /\ \E exc \in {"JSONDecodeError", "AttributeError"} :
                evPc' = handler_except(exc)
          /\ evOut' = [evOut EXCEPT !.failure = "envelope"]
       \/ /\ event.valid /\ event.event = "posted" /\ ~event.post_ok
          /\ evPc' = handler_except("JSONDecodeError")
          /\ evOut' = [evOut EXCEPT !.failure = "post"]
       \/ /\ event.valid /\ (event.event = "posted" => event.post_ok)
          /\ evPc' = IF passes_filter(event, BotUserId) THEN "should_respond"
                     ELSE "done"
          /\ UNCHANGED evOut
    /\ UNCHANGED <<event, channel_config, default_persona_id, evCtx,
                   coreVars, listenerVars, botVars, parseVars, splitVars,
                   sendVars, citeVars, cmdVars, threadVars,
                   chanVars>>

\* client.py 379-395: should_respond is awaited; it raises, or the handler
\* returns on a negative context, a missing API key or a missing wrapper, or
\* goes on to process_chat_message.
HE_ShouldRespond ==
    /\ evPc = "should_respond"
    /\ \/ /\ UNCHANGED evCtx
          /\ evPc' = handler_except("Exception")
          /\ evOut' = [evOut EXCEPT !.reached = TRUE, !.failure = "should_respond"]
       \/ LET ctx == should_respond(from_websocket_event(event), EventTenant, BotUserId)
          IN  /\ evCtx' = ctx
              /\ evOut' = [evOut EXCEPT !.reached = TRUE]
              /\ evPc' = IF /\ ctx.should_respond
                            /\ GetKey(api_keys, EventTenant) # 0
                            /\ EventTenant \in driver_wrappers
                         THEN "react" ELSE "done"
    /\ UNCHANGED <<event, channel_config, default_persona_id,
                   coreVars, listenerVars, botVars, parseVars, splitVars,
                   sendVars, citeVars, cmdVars, threadVars,
                   chanVars>>

\* handle_message.py 184-190: the thinking reaction is added, or adding it
\* fails.
PCM_React ==
    /\ evPc = "react"
    /\ evPc' = "ask"
    /\ \/ evOut' = [evOut EXCEPT !.reactions = @ + 1]
       \/ UNCHANGED evOut
    /\ UNCHANGED <<event, channel_config, default_persona_id, evCtx,
                   coreVars, listenerVars, botVars, parseVars, splitVars,
                   sendVars, citeVars, cmdVars, threadVars,
                   chanVars>>

\* handle_message.py 192-207: the context is built, which does not raise
\* (283-336), and the text is sent to the answer service, which answers or
\* fails.
PCM_Ask ==
    /\ evPc = "ask"
    /\ \/ /\ evOut' = [evOut EXCEPT !.asked = Append(@, event.message)]
          /\ evPc' = "reply"
       \/ /\ evOut' = [evOut EXCEPT !.asked = Append(@, event.message),
                                    !.failure = "answer"]
          /\ evPc' = "error"
    /\ UNCHANGED <<event, channel_config, default_persona_id, evCtx,
                   coreVars, listenerVars, botVars, parseVars, splitVars,
                   sendVars, citeVars, cmdVars, threadVars,
                   chanVars>>

\* handle_message.py 209-219: the answer is posted and the reaction removed
\* (or removing it fails); or posting raises.
PCM_Reply ==
    /\ evPc = "reply"
    /\ \/ /\ evPc' = "done"
          /\ \E left \in {0, evOut.reactions} :
                evOut' = [evOut EXCEPT !.posts = @ + 1, !.reactions = left]
       \/ /\ evPc' = "error"
          /\ \E sent \in {0, 1} :
                evOut' = [evOut EXCEPT !.posts = @ + sent, !.failure = "send"]
    /\ UNCHANGED <<event, channel_config, default_persona_id, evCtx,
                   coreVars, listenerVars, botVars, parseVars, splitVars,
                   sendVars, citeVars, cmdVars, threadVars,
                   chanVars>>

\* handle_message.py 221-226 and 394-416: send_error_response removes the
\* reaction and posts the apology, each of which may fail; both failures
\* are passed over and process_chat_message returns.
PCM_Error ==
    /\ evPc = "error"
    /\ evPc' = "done"
    /\ \E left \in {0, evOut.reactions}, posted \in {0, 1} :
          evOut' = [evOut EXCEPT
                       !.posts = @ + posted,
                       !.reactions = left,
                       !.removeTried = TRUE,
                       !.apologyTried = TRUE,
                       !.apologies =
                           IF posted = 0 THEN @
                           ELSE Append(@, [channel_id |-> from_websocket_event(event).channel_id,
                                           message |-> ErrorMsg,
                                           root_id |-> error_root_id(from_websocket_event(event))])]
    /\ UNCHANGED <<event, channel_config, default_persona_id, evCtx,
                   coreVars, listenerVars, botVars, parseVars, splitVars,
                   sendVars, citeVars, cmdVars, threadVars,
                   chanVars>>


\* handle_command has not been called.
CmdIdle == cmdOut = [text |-> <<>>, returned |-> FALSE, handler |-> "none"]

\* No event is being handled.
EventIdle ==
    /\ event = [valid |-> FALSE]
    /\ channel_config = NoChannelConfig
    /\ default_persona_id = NoPersona
    /\ evPc = "none"
    /\ evCtx = NoCtx
    /\ evOut = NoEffects


\* The bot's tables are empty, start() has returned, no periodic task.
BotIdle ==
    /\ driver_wrappers = {}
    /\ websocket_tasks = {}
    /\ conn = [c \in Callers |-> ConnIdle(IF c = "start" THEN "done" ELSE "none", 0)]
    /\ stopSt = StopIdle

MsgIdle ==
    /\ BotIdle
    /\ CmdIdle
    /\ EventIdle
    /\ ParseIdle
    /\ SplitIdle
    /\ SendIdle
    /\ CiteIdle
    /\ ThreadIdle
    /\ ChanIdle

\* The cache over a storage in which teams were registered by earlier runs.
InitCache ==
    /\ CacheEmpty
    /\ MsgIdle
    /\ gatedTenants \in {{}, {"t2"}}
    /\ teamConfig \in {[r \in Rows |-> IF r = "r1" THEN BoundRow("m1", 1, TRUE) ELSE x] :
                          x \in {BoundRow("m2", 2, TRUE), BoundRow("m2", 2, FALSE)}}
    /\ now = 3
    /\ dbBot \in {[t \in Tenants |-> IF t = "t1" THEN BotConfig(Url, Token) ELSE x] :
                     x \in {BotConfig(Url, Token), BotConfig(Empty, Token), NoBotConfig}}
    /\ dbKeyGen = [t \in Tenants |-> 0]
    /\ ListenerIdle

NextCache ==
    \/ RA_Start
    \/ RA_Gated
    \/ RA_List
    \/ RA_Tenant
    \/ RA_Publish
    \/ \E team \in Teams, tenant \in Tenants : RT_Call("p1", team, tenant)
    \/ \E p \in Procs : RT_Acquire(p)
    \/ \E p \in Procs : RT_Load(p)
    \/ \E p \in Procs : RT_Merge(p)
    \/ \E team \in Teams : remove_team(team)
    \/ clear

SpecCache == InitCache /\ [][NextCache]_vars

\* Register commands over a storage whose registration keys are all unused.
InitReg ==
    /\ CacheEmpty
    /\ MsgIdle
    /\ gatedTenants = {}
    /\ teamConfig = [r \in Rows |-> UnboundRow(TRUE)]
    /\ now = 1
    /\ dbBot = [t \in Tenants |-> BotConfig(Url, Token)]
    /\ dbKeyGen = [t \in Tenants |-> 0]
    /\ ListenerIdle

NextReg ==
    \/ RA_Start
    \/ RA_Gated
    \/ RA_List
    \/ RA_Tenant
    \/ RA_Publish
    \/ \E p \in Procs, team \in Teams, r \in Rows : Reg_Start(p, team, KeyOf(r))
    \/ \E p \in Procs : Reg_Lookup(p)
    \/ \E p \in Procs : Reg_Commit(p)
    \/ \E p \in Procs : RT_Acquire(p)
    \/ \E p \in Procs : RT_Load(p)
    \/ \E p \in Procs : RT_Merge(p)

SpecReg == InitReg /\ [][NextReg]_vars

\* The listeners of the tenants once start() has set the running flag
\* (client.py 172), over an unchanging cache and storage.
InitListener ==
    /\ CacheEmpty
    /\ MsgIdle
    /\ gatedTenants = {}
    /\ teamConfig = [r \in Rows |-> UnboundRow(TRUE)]
    /\ now = 1
    /\ dbBot = [t \in Tenants |-> BotConfig(Url, Token)]
    /\ dbKeyGen = [t \in Tenants |-> 0]
    /\ running = TRUE
    /\ drivers = {}
    /\ lstate = [t \in Tenants |-> "none"]
    /\ attempts = [t \in Tenants |-> 0]
    /\ lastEnd = [t \in Tenants |-> "none"]
    /\ slept = [t \in Tenants |-> 0]

NextListener ==
    \/ \E t \in Tenants : Connect(t)
    \/ \E t \in Tenants : L_Check(t)
    \/ \E t \in Tenants : L_Disconnect(t)
    \/ \E t \in Tenants : L_Error(t)
    \/ \E t \in Tenants : L_Wake(t)
    \/ Stop_Flag
    \/ Stop_CancelPeriodic
    \/ \E t \in Tenants : Stop_Cancel(t)
    \/ Stop_Disconnect
    \/ Stop_Close

SpecListener == InitListener /\ [][NextListener]_vars

\* parse_mattermost_registration_key applied to every key of the universe.
InitParse ==
    /\ CacheEmpty
    /\ StorageIdle
    /\ ListenerIdle
    /\ BotIdle
    /\ CmdIdle
    /\ EventIdle
    /\ parseKey \in Keys
    /\ parseOut = [done |-> FALSE, tenant_id |-> <<>>]
    /\ SplitIdle
    /\ SendIdle
    /\ CiteIdle
    /\ ThreadIdle
    /\ ChanIdle

NextParse ==
    \/ ParseKey

SpecParse == InitParse /\ [][NextParse]_vars

\* _split_message called with every text of the universe.
InitSplit ==
    /\ CacheEmpty
    /\ StorageIdle
    /\ ListenerIdle
    /\ BotIdle
    /\ CmdIdle
    /\ EventIdle
    /\ ParseIdle
    /\ \E n \in 0..MaxTextLen : splitText \in [1..n -> Chars]
    /\ splitRest = splitText
    /\ chunks = <<>>
    /\ splitPc = "loop"
    /\ SendIdle
    /\ CiteIdle
    /\ ThreadIdle
    /\ ChanIdle

NextSplit ==
    \/ SplitStep

SpecSplit == InitSplit /\ [][NextSplit]_vars

\* send_response called for both kinds of message, both modes of the channel
\* and every text of words up to two characters over the limit.
InitSend ==
    /\ CacheEmpty
    /\ StorageIdle
    /\ ListenerIdle
    /\ BotIdle
    /\ CmdIdle
    /\ EventIdle
    /\ ParseIdle
    /\ SplitIdle
    /\ sendMsg \in SendMessages
    /\ thread_only_mode \in BOOLEAN
    /\ \E n \in 0..(MaxMessageLength + 2) : sendContent \in [1..n -> {"a", " "}]
    /\ sendTodo = <<>>
    /\ posts = <<>>
    /\ sendPc = "split"
    /\ CiteIdle
    /\ ThreadIdle
    /\ ChanIdle

NextSend ==
    \/ Send_Split
    \/ Send_Post

SpecSend == InitSend /\ [][NextSend]_vars

\* _append_citations called with every list of up to MaxCitations citations,
\* with and without source documents.
InitCite ==
    /\ CacheEmpty
    /\ StorageIdle
    /\ ListenerIdle
    /\ BotIdle
    /\ CmdIdle
    /\ EventIdle
    /\ ParseIdle
    /\ SplitIdle
    /\ SendIdle
    /\ ThreadIdle
    /\ ChanIdle
    /\ \E n \in 0..MaxCitations : citation_info \in [1..n -> Citations]
    /\ top_documents \in {<<>>, TopDocuments}
    /\ citeOut = [done |-> FALSE, entries |-> <<>>]

NextCite ==
    \/ AppendCitations

SpecCite == InitCite /\ [][NextCite]_vars

\* The bot from the call of start() on: the first refresh_all, the periodic
\* task, both rounds of _connect_all_servers, the listeners, and stop().
InitBot ==
    /\ CacheEmpty
    /\ ListenerIdle
    /\ CmdIdle
    /\ EventIdle
    /\ ParseIdle
    /\ SplitIdle
    /\ SendIdle
    /\ CiteIdle
    /\ ThreadIdle
    /\ ChanIdle
    /\ gatedTenants = {}
    /\ teamConfig = [r \in Rows |-> IF r = "r1" THEN BoundRow("m1", 1, TRUE)
                                                ELSE BoundRow("m2", 2, TRUE)]
    /\ now = 3
    /\ dbBot \in {[t \in Tenants |-> IF t = "t1" THEN BotConfig(Url, Token) ELSE x] :
                     x \in {BotConfig(Url, Token), NoBotConfig}}
    /\ dbKeyGen = [t \in Tenants |-> 0]
    /\ driver_wrappers = {}
    /\ websocket_tasks = {}
    /\ conn = [c \in Callers |-> ConnIdle(IF c = "start" THEN "refresh" ELSE "none", 0)]
    /\ stopSt = StopIdle

NextBot ==
    \/ Start_Refresh
    \/ Start_Run
    \/ Periodic_Refresh
    \/ Periodic_Run
    \/ RA_Gated
    \/ RA_List
    \/ RA_Tenant
    \/ RA_Publish
    \/ \E c \in Callers : CA_Next(c)
    \/ \E c \in Callers : CA_Login(c)
    \/ \E c \in Callers : CA_GetUser(c)
    \/ \E t \in Tenants : L_Check(t)
    \/ \E t \in Tenants : L_Disconnect(t)
    \/ \E t \in Tenants : BecomeIneligible(t)
    \/ Stop_Flag
    \/ Stop_CancelPeriodic
    \/ \E t \in Tenants : Stop_Cancel(t)
    \/ Stop_Disconnect
    \/ Stop_Close

SpecBot == InitBot /\ [][NextBot]_vars


\* The cache as a refresh left it, with the route of team m1 to tenant t1,
\* after the team's config row has been removed from storage.
StaleRoute ==
    /\ team_tenants = Put(EmptyDict, "m1", "t1")
    /\ api_keys = Put(EmptyDict, "t1", 1)
    /\ server_urls = Put(EmptyDict, "t1", Url)
    /\ bot_tokens = Put(EmptyDict, "t1", Token)
    /\ initialized = TRUE
    /\ lock = "free"
    /\ ra = RaIdle("none")
    /\ cycle = 0
    /\ mapCycle = [team |-> 0, keys |-> 0, urls |-> 0, tokens |-> 0]
    /\ proc = [p \in Procs |-> ProcIdle]
    /\ lastReply = Reply(None, "none", None, <<>>, "none", FALSE, FALSE)
    /\ registered = {}
    /\ cmds = 0

\* handle_commands.py 52-62: a message of team m1 is given to
\* handle_command: the first one with any of the texts, a later one with a
\* follow-up text.
ReceiveCommand ==
    \E text \in (IF cmds = 0 THEN CommandTexts ELSE FollowUpTexts) :
        HandleCommand("p1", "m1", text)

\* handle_command called for messages of one team, by one caller at a time,
\* first with any of the texts and then with the follow-up texts, and the
\* registrations it starts carried through.
InitCommand ==
    /\ \/ CacheEmpty
       \/ StaleRoute
    /\ StorageIdle
    /\ ListenerIdle
    /\ MsgIdle

NextCommand ==
    \/ ReceiveCommand
    \/ \E p \in Procs : Reg_Lookup(p)
    \/ \E p \in Procs : Reg_Commit(p)
    \/ \E p \in Procs : RT_Acquire(p)
    \/ \E p \in Procs : RT_Load(p)
    \/ \E p \in Procs : RT_Merge(p)

SpecCommand == InitCommand /\ [][NextCommand]_vars


\* One event of tenant t1 arrives at _handle_event, with the tenant connected
\* and its API key in the cache, or after stop() has emptied the tables.
InitEvent ==
    /\ ParseIdle
    /\ SplitIdle
    /\ SendIdle
    /\ CiteIdle
    /\ ThreadIdle
    /\ ChanIdle
    /\ CmdIdle
    /\ gatedTenants = {}
    /\ now = 3
    /\ dbBot = [t \in Tenants |-> BotConfig(Url, Token)]
    /\ dbKeyGen = [t \in Tenants |-> IF t = EventTenant THEN 1 ELSE 0]
    /\ lock = "free"
    /\ ra = RaIdle("none")
    /\ cycle = 0
    /\ mapCycle = [team |-> 0, keys |-> 0, urls |-> 0, tokens |-> 0]
    /\ proc = [p \in Procs |-> ProcIdle]
    /\ lastReply = Reply(None, "none", None, <<>>, "none", FALSE, FALSE)
    /\ registered = {}
    /\ cmds = 0
    /\ attempts = [t \in Tenants |-> 0]
    /\ lastEnd = [t \in Tenants |-> "none"]
    /\ slept = [t \in Tenants |-> 0]
    /\ teamConfig \in {[r \in Rows |-> IF r = "r1" THEN x ELSE UnboundRow(TRUE)] :
                          x \in {UnboundRow(TRUE), BoundRow("m1", 1, TRUE),
                                 BoundRow("m1", 1, FALSE), BoundRow("m2", 1, TRUE)}}
    /\ team_tenants = EmptyDict
    /\ server_urls = EmptyDict
    /\ bot_tokens = EmptyDict
    /\ \E connected \in BOOLEAN :
          /\ api_keys = IF connected THEN Put(EmptyDict, EventTenant, 1) ELSE EmptyDict
          /\ initialized = connected
          /\ running = connected
          /\ drivers = IF connected THEN {EventTenant} ELSE {}
          /\ driver_wrappers = drivers
          /\ websocket_tasks = drivers
          /\ lstate = [t \in Tenants |->
                          IF t # EventTenant THEN "none"
                          ELSE IF connected THEN "listening" ELSE "cancelled"]
          /\ stopSt = IF connected THEN StopIdle
                      ELSE [StopIdle EXCEPT !.pc = "done", !.tasksAtStop = {EventTenant},
                                            !.driversAtStop = {EventTenant},
                                            !.tried = {EventTenant}]
    /\ conn = [c \in Callers |-> ConnIdle(IF c = "start" THEN "done" ELSE "none", 0)]
    /\ event \in Events
    /\ channel_config \in ChannelConfigs
    /\ default_persona_id \in {NoPersona, 1}
    /\ evPc = "start"
    /\ evCtx = NoCtx
    /\ evOut = NoEffects

NextEvent ==
    \/ HE_Decode
    \/ HE_ShouldRespond
    \/ PCM_React
    \/ PCM_Ask
    \/ PCM_Reply
    \/ PCM_Error

SpecEvent == InitEvent /\ [][NextEvent]_vars


\* _build_conversation_context called for every message, in and out of a
\* thread, with get_thread raising, returning nothing, or returning a thread
\* of up to MaxThreadLen posts that holds the current post or not.
InitThread ==
    /\ CacheEmpty
    /\ StorageIdle
    /\ ListenerIdle
    /\ BotIdle
    /\ CmdIdle
    /\ EventIdle
    /\ ParseIdle
    /\ SplitIdle
    /\ SendIdle
    /\ CiteIdle
    /\ ChanIdle
    /\ \E result \in {"raise", "empty", "data"} :
          /\ thread_data \in [result : {result},
                              order : IF result = "data" THEN ThreadOrders ELSE {<<>>},
                              posts : IF result = "data" THEN [PostIds -> ThreadUsers]
                                      ELSE {[p \in PostIds |-> BotUserSeq]}]
    /\ thMessage \in [post_id : PostIds, root_id : {"", "root"}, is_thread : BOOLEAN]
    /\ thContext = [done |-> FALSE, context |-> NoneContext]

NextThread ==
    \/ BuildConversationContext

SpecThread == InitThread /\ [][NextThread]_vars


\* sync_team_channels called twice with the same list of up to MaxChannels
\* channel views, over every set of stored rows.
InitSync ==
    /\ CacheEmpty
    /\ StorageIdle
    /\ ListenerIdle
    /\ BotIdle
    /\ CmdIdle
    /\ EventIdle
    /\ ParseIdle
    /\ SplitIdle
    /\ SendIdle
    /\ CiteIdle
    /\ ThreadIdle
    /\ channel_rows \in ChannelRowSets
    /\ current_channels \in UNION {[1..n -> ChannelViews] : n \in 0..MaxChannels}
    /\ syncOut = [calls |-> 0, returned |-> FALSE, counts |-> NoCounts,
                  before |-> {}, earlier |-> FALSE]

NextSync ==
    \/ SyncTeamChannels

SpecSync == InitSync /\ [][NextSync]_vars



\* The bot after start() has returned: the first refresh_all has cached both
\* tenants, t1 is connected and its listener is in init_websocket, the
\* connect of t2 has succeeded or failed, and the periodic task sleeps. The
\* storage does not change; the listeners fail and reconnect while the
\* periodic task runs its cycles.
InitReconcile ==
    /\ team_tenants = Put(Put(EmptyDict, "m1", "t1"), "m2", "t2")
    /\ api_keys = [t \in Tenants |-> 1]
    /\ server_urls = [t \in Tenants |-> Url]
    /\ bot_tokens = [t \in Tenants |-> Token]
    /\ initialized = TRUE
    /\ lock = "free"
    /\ ra = RaIdle("ok")
    /\ cycle = 1
    /\ mapCycle = [team |-> 1, keys |-> 1, urls |-> 1, tokens |-> 1]
    /\ proc = [p \in Procs |-> ProcIdle]
    /\ lastReply = Reply(None, "none", None, <<>>, "none", FALSE, FALSE)
    /\ registered = {}
    /\ cmds = 0
    /\ gatedTenants = {}
    /\ teamConfig = [r \in Rows |-> IF r = "r1" THEN BoundRow("m1", 1, TRUE)
                                                ELSE BoundRow("m2", 2, TRUE)]
    /\ now = 3
    /\ dbBot = [t \in Tenants |-> BotConfig(Url, Token)]
    /\ dbKeyGen = [t \in Tenants |-> 1]
    /\ running = TRUE
    /\ drivers \in {{"t1"}, Tenants}
    /\ driver_wrappers = drivers
    /\ websocket_tasks = drivers
    /\ lstate = [t \in Tenants |-> IF t \in drivers THEN "listening" ELSE "none"]
    /\ attempts = [t \in Tenants |-> 0]
    /\ lastEnd = [t \in Tenants |-> "none"]
    /\ slept = [t \in Tenants |-> 0]
    /\ conn = [c \in Callers |-> ConnIdle(IF c = "start" THEN "done" ELSE "sleep", 1)]
    /\ stopSt = StopIdle
    /\ CmdIdle
    /\ EventIdle
    /\ ParseIdle
    /\ SplitIdle
    /\ SendIdle
    /\ CiteIdle
    /\ ThreadIdle
    /\ ChanIdle

NextReconcile ==
    \/ Periodic_Refresh
    \/ Periodic_Run
    \/ RA_Gated
    \/ RA_List
    \/ RA_Tenant
    \/ RA_Publish
    \/ CA_Next("periodic")
    \/ CA_Login("periodic")
    \/ CA_GetUser("periodic")
    \/ \E t \in Tenants : L_Check(t)
    \/ \E t \in Tenants : L_Disconnect(t)
    \/ \E t \in Tenants : L_Error(t)
    \/ \E t \in Tenants : L_Wake(t)

SpecReconcile == InitReconcile /\ [][NextReconcile]_vars


\* The running bot of InitReconcile with stop(): the periodic task runs its
\* cycles, refresh_team is called for a team and tenant t1, and stop() is
\* called at any moment.
NextShutdown ==
    \/ Periodic_Refresh
    \/ Periodic_Run
    \/ RA_Gated
    \/ RA_List
    \/ RA_Tenant
    \/ RA_Publish
    \/ CA_Next("periodic")
    \/ CA_Login("periodic")
    \/ CA_GetUser("periodic")
    \/ \E t \in Tenants : L_Check(t)
    \/ \E t \in Tenants : L_Disconnect(t)
    \/ \E team \in Teams : RT_Call("p1", team, "t1")
    \/ RT_Acquire("p1")
    \/ RT_Load("p1")
    \/ RT_Merge("p1")
    \/ Stop_Flag
    \/ Stop_CancelPeriodic
    \/ \E t \in Tenants : Stop_Cancel(t)
    \/ Stop_Disconnect
    \/ Stop_Close

SpecShutdown == InitReconcile /\ [][NextShutdown]_vars

\* ------------------------------------------------------------------ properties
cacheMaps == <<team_tenants, api_keys, server_urls, bot_tokens>>

\* C1: a refresh_all call that raises (the gated-tenant lookup or the tenant
\* list load fails) ends with CacheError and the lock released, it raises only
\* before the first store of the publication, and no step of a call before
\* its publication changes any of the four maps.
C1_FailedRefreshAllKeepsCache ==
    [][ /\ (ra' # ra /\ ra.pc \notin StorePcs) => UNCHANGED cacheMaps
        /\ (ra' # ra /\ ra'.result = "CacheError") =>
              /\ ra.pc \in {"gated", "list"}
              /\ ra'.pc = "idle"
              /\ lock' = "free"
              /\ UNCHANGED cacheMaps
        /\ (ra.pc \in {"gated", "list"} /\ ra'.pc = "idle") =>
              ra'.result = "CacheError" ]_vars

\* A refresh_all call has raised while the cache held entries.
C1_Witness ==
    /\ ra.result = "CacheError"
    /\ team_tenants # EmptyDict
    /\ api_keys # EmptyDict

\* C2: no team id is bound in more than one team config row, of one tenant or
\* of several.
C2_TeamBoundInOneRow ==
    \A m \in Teams : Cardinality({r \in Rows : teamConfig[r].team_id = m}) <= 1

\* C3: a register command of a team that has completed a successful
\* registration is answered with the 'already registered' failure, and no
\* row bound to a team that has completed a registration changes.
C3_SecondRegisterRejected ==
    /\ [](lastReply.cmd = "register" /\ lastReply.wasRegistered
             => lastReply.reply = "AlreadyRegistered")
    /\ [][\A r \in Rows : teamConfig[r].team_id \in registered
             => teamConfig'[r] = teamConfig[r]]_vars

\* C4: a register command that presents a key whose row is already bound is
\* answered with a failure reply, and none of its steps changes a team config
\* row or the cache.
C4_UsedKeyRejected ==
    [][ /\ (lastReply'.cmd = "register" /\ lastReply'.keyWasBound)
              => lastReply'.reply \in {"AlreadyRegistered", "KeyUsed"}
        /\ \A p \in Procs :
              (proc[p].keyWasBound /\ proc'[p] # proc[p])
                 => UNCHANGED <<teamConfig, cacheVars>>
        /\ (lastReply' # lastReply /\ lastReply'.keyWasBound)
              => UNCHANGED <<teamConfig, cacheVars>> ]_vars

\* A team other than the one bound to the key presented it and was rejected.
C4_Witness ==
    /\ lastReply.cmd = "register"
    /\ lastReply.keyWasBound
    /\ lastReply.reply = "KeyUsed"
    /\ \E r \in Rows : /\ KeyOf(r) = lastReply.key
                       /\ teamConfig[r].team_id \notin {None, lastReply.team}

\* C5: the team_id of a team config row, once set, never changes.
C5_KeyConsumedOnce ==
    [][\A r \in Rows : teamConfig[r].team_id # None
          => teamConfig'[r].team_id = teamConfig[r].team_id]_vars

\* C6: the attempt counter never exceeds MAX_RECONNECT_ATTEMPTS; a listener
\* whose counter is at the ceiling makes no connect attempt, keeps its counter
\* and, once its task has ended, stays ended; and the step in which a tenant
\* reaches the ceiling or ends leaves the other tenants' listeners, counters
\* and drivers as they are.
C6_CeilingHaltsListener ==
    [][\A t \in Tenants :
        /\ attempts'[t] <= MAX_RECONNECT_ATTEMPTS
        /\ attempts[t] = MAX_RECONNECT_ATTEMPTS =>
              /\ attempts'[t] = MAX_RECONNECT_ATTEMPTS
              /\ lstate'[t] \in {"check", "stopped", "cancelled"}
        /\ lstate[t] = "stopped" => lstate'[t] = "stopped"
        /\ (attempts'[t] = MAX_RECONNECT_ATTEMPTS
               /\ <<lstate[t], attempts[t]>> # <<lstate'[t], attempts'[t]>>) =>
              /\ \A u \in Tenants \ {t} :
                    /\ lstate'[u] = lstate[u]
                    /\ attempts'[u] = attempts[u]
              /\ drivers' = drivers ]_vars

\* One tenant's listener has ended at the ceiling while another tenant's
\* listener is inside init_websocket.
C6_Witness ==
    \E t, u \in Tenants :
        /\ t # u
        /\ attempts[t] = MAX_RECONNECT_ATTEMPTS
        /\ lstate[t] = "stopped"
        /\ running
        /\ lstate[u] = "listening"

\* C7: an init_websocket call that raises adds one to the attempt counter,
\* and the next call is made only after a sleep of RECONNECT_DELAY times the
\* new counter; a call that returns sets the counter to zero, so the next
\* failure is attempt 1.
C7_LinearBackoff ==
    [][\A t \in Tenants :
        /\ (lstate[t] = "listening" /\ lstate'[t] # "listening"
               /\ lstate'[t] # "cancelled") =>
              \/ /\ lastEnd'[t] = "error"
                 /\ attempts'[t] = attempts[t] + 1
              \/ /\ lastEnd'[t] = "clean"
                 /\ attempts'[t] = 0
        /\ (lstate[t] # "listening" /\ lstate'[t] = "listening"
               /\ lastEnd[t] = "error") =>
              /\ attempts[t] >= 1
              /\ slept[t] = RECONNECT_DELAY * attempts[t]
        /\ (lstate[t] # "listening" /\ lstate'[t] = "listening"
               /\ lastEnd[t] = "clean") =>
              attempts[t] = 0
        /\ (lstate[t] = "listening" /\ lastEnd[t] = "clean"
               /\ lastEnd'[t] = "error") =>
              attempts'[t] = 1 ]_vars

\* A listener is back in init_websocket after its third consecutive failure
\* and the sleep that followed it.
C7_Witness ==
    \E t \in Tenants :
        /\ lstate[t] = "listening"
        /\ lastEnd[t] = "error"
        /\ attempts[t] = 3
        /\ slept[t] = RECONNECT_DELAY * 3

\* C8: the dict objects the four fields refer to were all built by the same
\* refresh_all call, in every state a reader can run in.
C8_ReaderSeesOneCycle ==
    /\ mapCycle.team = mapCycle.keys
    /\ mapCycle.keys = mapCycle.urls
    /\ mapCycle.urls = mapCycle.tokens

\* C9: a tenant whose load raises is skipped: the loop goes on and raises no
\* CacheError, and when the four maps have been stored they hold the API key,
\* the routes, the server url and the bot token of every tenant that was
\* neither gated nor failed and has enabled teams.
C9_FailedTenantSkipped ==
    [][ /\ ra.pc = "loop" =>
              /\ ra'.pc \in {"loop", "store_team"}
              /\ ra'.result # "CacheError"
        /\ ra'.pc = "store_init" =>
              \A t \in Tenants \ (ra'.gated \cup ra'.failed) :
                 EnabledTeamIds(t) # {} =>
                    /\ t \in DOMAIN api_keys'
                    /\ \A m \in EnabledTeamIds(t) : m \in DOMAIN team_tenants'
                    /\ \E m \in EnabledTeamIds(t) : team_tenants'[m] = t
                    /\ Truthy(dbBot[t].server_url) =>
                          Get(server_urls', t) = dbBot[t].server_url
                    /\ Truthy(dbBot[t].bot_token) =>
                          Get(bot_tokens', t) = dbBot[t].bot_token ]_vars

\* The maps of a cycle in which one tenant's load raised have been stored and
\* hold another tenant's entries.
C9_Witness ==
    /\ ra.pc = "store_init"
    /\ ra.failed # {}
    /\ \E t \in Tenants \ ra.failed :
          /\ t \in DOMAIN api_keys
          /\ \E m \in Teams : Get(team_tenants, m) = t

\* C10: get_all_tenants_with_bots returns exactly the tenants that have an
\* entry in the server-url map and an entry in the bot-token map, each with
\* its two entries.
C10_TenantsWithBots ==
    get_all_tenants_with_bots =
        {<<t, server_urls[t], bot_tokens[t]>> :
            t \in (DOMAIN server_urls) \cap (DOMAIN bot_tokens)}

\* One tenant has a bot token and no server url, and another tenant is
\* returned.
C10_Witness ==
    /\ \E t \in Tenants : t \in (DOMAIN bot_tokens) \ (DOMAIN server_urls)
    /\ get_all_tenants_with_bots # {}

\* The key is the prefix, the text t, a dot and a token, the dot at index i.
KeyHasForm(k, i) ==
    /\ i \in 2..Len(k)
    /\ k[1] = Prefix
    /\ k[i] = Dot

\* The key lacks the prefix or has no dot after the prefix.
KeyLacksForm(k) ==
    \/ k = <<>>
    \/ k[1] # Prefix
    \/ \A i \in 2..Len(k) : k[i] # Dot

\* C11 as stated: whichever way the key reads as prefix, T, dot, token, the
\* parser returns a tenant id and it is T; a key without the prefix or
\* without a dot after the prefix yields no tenant id.
C11_ParseReturnsT ==
    parseOut.done =>
        /\ \A i \in 1..Len(parseKey) :
              KeyHasForm(parseKey, i) =>
                 /\ parseOut.tenant_id # <<>>
                 /\ parseOut.tenant_id = SubSeq(parseKey, 2, i - 1)
        /\ KeyLacksForm(parseKey) => parseOut.tenant_id = <<>>

\* C11 amended: when T is not empty and holds no dot the parser returns T,
\* whatever the token (dots included); when T is empty, or the prefix or
\* the dot is missing, it returns no tenant id.
C11_ParseReturnsDotFreeT ==
    parseOut.done =>
        /\ \A i \in 1..Len(parseKey) :
              (/\ KeyHasForm(parseKey, i)
               /\ i > 2
               /\ \A j \in 2..(i - 1) : parseKey[j] # Dot) =>
                 parseOut.tenant_id = SubSeq(parseKey, 2, i - 1)
        /\ KeyHasForm(parseKey, 2) => parseOut.tenant_id = <<>>
        /\ KeyLacksForm(parseKey) => parseOut.tenant_id = <<>>

\* A key whose token holds a dot has been parsed to its tenant id.
C11_Witness ==
    /\ parseOut.done
    /\ parseKey = <<Prefix, "t1", Dot, "x", Dot>>
    /\ parseOut.tenant_id = <<"t1">>

\* The texts of a list, joined in order.
RECURSIVE Concat(_)
Concat(list) ==
    IF list = <<>> THEN <<>> ELSE Head(list) \o Concat(Tail(list))

\* C13: at every pass of _split_message's loop the chunks taken so far are
\* non-empty, none is longer than the limit, and followed by what is left
\* they are the original text, so each pass shortens what is left; when the
\* call returns, the chunks joined in order are the original text; a text
\* of limit+1 characters without a newline is returned as two chunks.
C13_SplitMessage ==
    /\ \A i \in 1..Len(chunks) :
          /\ chunks[i] # <<>>
          /\ Len(chunks[i]) <= MaxMessageLength
    /\ splitPc = "loop" => Concat(chunks) \o splitRest = splitText
    /\ splitPc = "done" =>
          /\ Concat(chunks) = splitText
          /\ (/\ Len(splitText) = MaxMessageLength + 1
              /\ \A i \in 1..Len(splitText) : splitText[i] # NL)
                => Len(chunks) = 2

\* A text of limit+1 characters, words separated by spaces, has been split
\* in two at a space.
C13_Witness ==
    /\ splitPc = "done"
    /\ Len(splitText) = MaxMessageLength + 1
    /\ \A i \in 1..Len(splitText) : splitText[i] \in {"a", " "}
    /\ Len(chunks) = 2
    /\ Len(chunks[1]) < MaxMessageLength
    /\ chunks[1][Len(chunks[1])] = " "

\* C12: every post send_response creates carries the same root: the root of
\* the thread when the message is a reply in a thread, else the id of the
\* message when the channel is thread-only, else none; and when the call
\* returns, the posts are the chunks of the content, in order.
C12_ReplyRoot ==
    /\ \A i \in 1..Len(posts) :
          posts[i].root_id =
             IF sendMsg.root_id # "" THEN sendMsg.root_id
             ELSE IF thread_only_mode THEN sendMsg.post_id
             ELSE None
    /\ sendPc = "done" =>
          /\ Concat([i \in 1..Len(posts) |-> posts[i].message]) = sendContent
          /\ Len(posts) = Len(_split_message(sendContent))

\* A reply of two chunks to a message in a thread, in a thread-only channel,
\* has been posted.
C12_Witness ==
    /\ sendPc = "done"
    /\ Len(posts) = 2
    /\ thread_only_mode
    /\ sendMsg.root_id = "root1"
    /\ posts[2].root_id = "root1"

\* The citations of citation_info whose document id is that of a source document.
MatchedCitations ==
    {i \in 1..Len(citation_info) :
        \E d \in 1..Len(top_documents) :
            top_documents[d].document_id = citation_info[i].document_id}

\* C14: the entries of the citations block are citations whose document id
\* matches a source document; their numbers ascend; there are at most 5 of
\* them, and as many as there are matching citations when those are fewer;
\* every matching citation with a number below the last entry's is among
\* them; and without a matching citation there is no block.
C14_CitationsBlock ==
    citeOut.done =>
        LET entries == citeOut.entries
        IN  /\ \A k \in 1..Len(entries) :
                  \E i \in MatchedCitations :
                      citation_info[i].citation_number = entries[k].num
            /\ \A k \in 1..(Len(entries) - 1) : entries[k].num <= entries[k + 1].num
            /\ Len(entries) <= CITATION_LIMIT
            /\ Len(entries) = IF Cardinality(MatchedCitations) < CITATION_LIMIT
                              THEN Cardinality(MatchedCitations)
                              ELSE CITATION_LIMIT
            /\ \A n \in CitationNumbers :
                  (Len(entries) > 0 /\ n < entries[Len(entries)].num) =>
                     Cardinality({i \in MatchedCitations :
                                     citation_info[i].citation_number = n})
                       = Cardinality({k \in 1..Len(entries) : entries[k].num = n})
            /\ MatchedCitations = {} => entries = <<>>

\* Six matching citations, the highest number first and the lowest last,
\* gave a block of five entries that starts with the lowest number.
C14_Witness ==
    /\ citeOut.done
    /\ Len(citation_info) = 6
    /\ Cardinality(MatchedCitations) = 6
    /\ citation_info[1].citation_number = 3
    /\ citation_info[6].citation_number = 1
    /\ Len(citeOut.entries) = 5
    /\ citeOut.entries[1].num = 1

\* The tables of the bot's connections.
connectionTables == <<drivers, driver_wrappers, websocket_tasks>>

\* C15: when the periodic task has gone through a cycle whose refresh_all
\* returned, every tenant that get_all_tenants_with_bots gave it was either
\* passed over because it had a driver or given a connect attempt, also
\* after another tenant's attempt had failed; the step in which an attempt
\* fails stores nothing in the connection tables, so that the tenant is not
\* passed over in the next cycle.
C15_EveryTenantAttempted ==
    /\ [](conn["periodic"].pc = "sleep" =>
             /\ conn["periodic"].snapshot =
                    conn["periodic"].attempted \cup conn["periodic"].skipped
             /\ conn["periodic"].failed \subseteq conn["periodic"].attempted)
    /\ [][\A t \in Tenants :
             /\ (t \in conn'["periodic"].skipped /\ t \notin conn["periodic"].skipped)
                    => t \in drivers
             /\ (t \in conn'["periodic"].failed /\ t \notin conn["periodic"].failed)
                    => UNCHANGED connectionTables]_vars

\* A periodic cycle is over in which a tenant without a driver, whose
\* attempt in start()'s round had failed, was attempted again and failed
\* again, and another tenant was attempted after that failure.
C15_Witness ==
    /\ conn["periodic"].pc = "sleep"
    /\ \E t1, t2 \in Tenants :
          /\ t1 # t2
          /\ t1 \in conn["start"].failed
          /\ t1 \in conn["periodic"].failed
          /\ t1 \notin drivers
          /\ t2 \in conn["periodic"].afterFailure
          /\ t2 \in drivers


\* C16: when stop() has returned, the running flag is off, the periodic task
\* and every listener task that was in the task table have ended (cancelled,
\* or finished before), disconnect was called on every driver of the table
\* whether or not an earlier call raised, and the driver, wrapper and task
\* tables and the four maps of the cache are empty.
C16_StopLeavesNothing ==
    stopSt.pc = "done" =>
        /\ ~running
        /\ conn["periodic"].pc \in {"none", "cancelled"}
        /\ \A t \in stopSt.tasksAtStop : lstate[t] \in {"cancelled", "stopped"}
        /\ stopSt.tasksTodo = {}
        /\ stopSt.tried = stopSt.driversAtStop
        /\ drivers = {} /\ driver_wrappers = {} /\ websocket_tasks = {}
        /\ team_tenants = EmptyDict /\ api_keys = EmptyDict
        /\ server_urls = EmptyDict /\ bot_tokens = EmptyDict

\* stop() has returned after cancelling the periodic task and two listener
\* tasks, with two drivers in the table of which the disconnect of one
\* raised.
C16_Witness ==
    /\ stopSt.pc = "done"
    /\ conn["periodic"].pc = "cancelled"
    /\ stopSt.tasksAtStop = Tenants
    /\ stopSt.driversAtStop = Tenants
    /\ Cardinality(stopSt.raised) = 1
    /\ \A t \in Tenants : lstate[t] = "cancelled"


\* The stripped text is the command word after the prefix, alone or followed
\* by a blank and its argument.
IsCommandText(content, word) ==
    /\ Len(content) >= 2
    /\ content[1] = "!"
    /\ content[2] = word
    /\ (Len(content) = 2 \/ content[3] = " ")

\* The stripped text begins with the prefix and the command word.
HasCommandPrefix(content, word) ==
    /\ Len(content) >= 2
    /\ content[1] = "!"
    /\ content[2] = word

\* What a call of handle_command that returns False leaves alone.
commandState == <<cacheVars, dbVars, proc, lastReply, registered>>

IsForeignPost ==
    /\ event.valid
    /\ event.event = "posted"
    /\ event.post_ok
    /\ event.user_id # BotUserId
    /\ \E i \in DOMAIN event.message : event.message[i] # " "

\* The cache and the connection state of the bot.
cacheAndConnections ==
    <<cacheVars, lock, running, drivers, driver_wrappers, websocket_tasks, lstate>>

\* C17: should_respond is called for an event only if the event is of type
\* 'posted', its author is not the bot's own user id for the tenant and its
\* text is not blank; for every other event the handler creates no post,
\* adds no reaction, asks the answer service nothing, and no event changes
\* the cache or the connection tables.
C17_OnlyForeignPostsReachRouter ==
    /\ [](/\ evOut.reached => IsForeignPost
          /\ ~IsForeignPost => [evOut EXCEPT !.failure = "none"] = NoEffects)
    /\ [][UNCHANGED cacheAndConnections]_vars

\* The bot's own post, in a channel where a post of another user with the
\* same text would be answered, was dropped without any effect.
C17_Witness ==
    /\ evPc = "done"
    /\ event.valid
    /\ event.event = "posted"
    /\ event.post_ok
    /\ event.user_id = BotUserId
    /\ event.message = <<"x">>
    /\ should_respond(from_websocket_event(event), EventTenant, BotUserId).should_respond
    /\ GetKey(api_keys, EventTenant) # 0
    /\ EventTenant \in driver_wrappers
    /\ evOut = NoEffects

\* C18: a posted message that passes the filter and whose text is the
\* register command or the sync-channels command is handed to
\* handle_command once the handler is through with it, and its text is
\* never sent to the answer service.
C18_CommandsGoToHandleCommand ==
    (IsForeignPost /\ command_of(strip(event.message)) # "none") =>
        /\ evOut.asked = <<>>
        /\ (evPc = "done" /\ evCtx.present /\ evCtx.should_respond)
               => evOut.commands # <<>>

\* C19: the context returned by should_respond has should_respond true
\* exactly when the tenant has an enabled team config for the team, there is
\* an enabled channel config, and the channel does not require invocation or
\* the bot is mentioned or the message is in a thread; a context with
\* should_respond false has no persona and thread_only_mode false.
C19_ShouldRespond ==
    evCtx.present =>
        LET teamRows == {r \in Rows : /\ RowTenant[r] = EventTenant
                                      /\ teamConfig[r].team_id = "m1"
                                      /\ teamConfig[r].enabled}
            expected == /\ teamRows # {}
                        /\ channel_config.present
                        /\ channel_config.enabled
                        /\ \/ ~channel_config.require_bot_invocation
                           \/ BotUserId \in event.mentions
                           \/ event.root_id # ""
        IN  /\ evCtx.should_respond <=> expected
            /\ ~evCtx.should_respond =>
                   (evCtx.persona_id = NoPersona /\ ~evCtx.thread_only_mode)

\* should_respond said yes for a message that does not mention the bot, in
\* a channel that requires invocation, because the message is in a thread.
C19_Witness ==
    /\ evCtx.present
    /\ evCtx.should_respond
    /\ channel_config.require_bot_invocation
    /\ event.mentions = {}
    /\ event.root_id # ""


\* The replies of the register command that are rejections.
RejectionPaths == DOMAIN RegistrationErrorText

\* C21: the text posted on a rejection path of the register command differs
\* from the text of every other rejection path, of the generic failure and
\* of the success reply; an exception that is no RegistrationError is
\* answered with the one generic failure text, no piece of which is the
\* exception's detail.
C21_DistinctRejections ==
    lastReply.cmd = "register" =>
        /\ lastReply.reply \in RejectionPaths =>
              \A other \in (RejectionPaths \cup {"Generic", "Success"}) \ {lastReply.reply} :
                  lastReply.text # registration_reply(other, ErrorDetail)
        /\ lastReply.error # None =>
              /\ lastReply.reply = "Generic"
              /\ lastReply.text = <<":x: **Registration failed.** ",
                                    "An unexpected error occurred. Please try again later.">>
              /\ \A i \in DOMAIN lastReply.text : lastReply.text[i] # lastReply.error

\* A registration whose cache refresh raised was answered with the generic
\* failure.
C21_Witness ==
    /\ lastReply.cmd = "register"
    /\ lastReply.reply = "Generic"
    /\ lastReply.error = ErrorDetail
    /\ \E r \in Rows : teamConfig[r].team_id = lastReply.team


\* C28: a register command whose key is malformed (no tenant id can be read
\* from it) is answered with the malformed-key failure, whether or not the
\* invoking team already has a tenant in the cache.
C28_FormatCheckedFirst ==
    (/\ lastReply.cmd = "register"
     /\ parse_mattermost_registration_key(lastReply.key) = <<>>)
        => lastReply.reply \in {"Usage", "InvalidFormat"}


SameExceptAt(d, e, k) ==
    /\ (DOMAIN d) \ {k} = (DOMAIN e) \ {k}
    /\ \A x \in (DOMAIN d) \ {k} : d[x] = e[x]

\* C22: a step of refresh_team(team_id, tenant_id) changes the four maps
\* only when it is the merge and team_id is among the enabled, bound teams
\* of the tenant; then the route of team_id is tenant_id and every route of
\* another team and every credential entry of another tenant is as before;
\* any other step of refresh_team leaves the four maps as they are.
C22_RefreshTeamFrame ==
    [][\A p \in Procs :
          (proc'[p].pc # proc[p].pc /\ "refresh_team" \in {proc[p].cmd, proc'[p].cmd}) =>
              IF /\ proc[p].pc = "rt_merge"
                 /\ proc[p].team \in EnabledTeamIds(proc[p].tenant)
              THEN /\ Get(team_tenants', proc[p].team) = proc[p].tenant
                   /\ SameExceptAt(team_tenants, team_tenants', proc[p].team)
                   /\ SameExceptAt(api_keys, api_keys', proc[p].tenant)
                   /\ SameExceptAt(server_urls, server_urls', proc[p].tenant)
                   /\ SameExceptAt(bot_tokens, bot_tokens', proc[p].tenant)
              ELSE UNCHANGED cacheMaps]_vars

\* With no refresh_all run, two calls of refresh_team have left the routes
\* of two teams to two tenants in the cache.
C22_Witness ==
    /\ cycle = 0
    /\ lastReply.cmd = "refresh_team"
    /\ lastReply.reply = "returned"
    /\ lastReply.team \in DOMAIN team_tenants
    /\ \E m \in DOMAIN team_tenants :
          /\ m # lastReply.team
          /\ team_tenants[m] # team_tenants[lastReply.team]
          /\ team_tenants[m] \in DOMAIN api_keys


\* C23: at the moment a register command is answered with the success reply,
\* the team config row of its key is bound to the invoking team and the
\* cache routes the team to the tenant named in the key.
C23_SuccessMeansBoundAndCached ==
    [][\A p \in Procs :
          (/\ proc[p].cmd = "register"
           /\ proc'[p].pc = "idle"
           /\ proc[p].pc # "idle"
           /\ lastReply'.reply = "Success"
           /\ lastReply'.key = proc[p].key
           /\ lastReply'.team = proc[p].team) =>
              /\ \A r \in Rows : KeyOf(r) = proc[p].key =>
                                    teamConfig'[r].team_id = proc[p].team
              /\ Get(team_tenants', proc[p].team) = proc[p].tenant]_vars


\* Separator sep stands in content at the 0-based index i, within the first
\* MaxMessageLength characters.
OccursAt(content, sep, i) ==
    /\ i >= 0
    /\ i + Len(sep) <= MaxMessageLength
    /\ i + Len(sep) <= Len(content)
    /\ SubSeq(content, i + 1, i + Len(sep)) = sep

SeparatorOrder == << <<NL, NL>>, <<NL>>, <<".", " ">>, <<" ">> >>

\* The length of the chunk cut from content when a separator qualifies by
\* Qualifies(sep, i) at its last occurrence i: the end of the last
\* occurrence of the first separator in the order that qualifies, else the
\* maximum length.
ChunkLength(content, Qualifies(_, _)) ==
    LET last(sep) == CHOOSE i \in 0..MaxMessageLength :
                        /\ OccursAt(content, sep, i)
                        /\ \A j \in 0..MaxMessageLength :
                              OccursAt(content, sep, j) => j <= i
        good == {k \in 1..4 :
                    /\ \E i \in 0..MaxMessageLength : OccursAt(content, SeparatorOrder[k], i)
                    /\ Qualifies(SeparatorOrder[k], last(SeparatorOrder[k]))}
    IN  IF good = {} THEN MaxMessageLength
        ELSE LET k == CHOOSE x \in good : \A y \in good : x <= y
             IN  last(SeparatorOrder[k]) + Len(SeparatorOrder[k])

\* The split point after the separator is at or past half the maximum.
SplitPointPastHalf(sep, i) == 2 * (i + Len(sep)) >= MaxMessageLength
\* The separator begins after the index MaxMessageLength // 2.
SeparatorBeginsPastHalf(sep, i) == i > MaxMessageLength \div 2

\* C30 as stated: from a text longer than the maximum, _split_message cuts a
\* chunk that ends after the last occurrence of the first separator, in the
\* order double newline, newline, period+space, space, whose split point is
\* at or past half the maximum length, and a chunk of exactly the maximum
\* length if there is none.
C30_SplitPointAtOrPastHalf ==
    [][(splitPc = "loop" /\ Len(splitRest) > MaxMessageLength) =>
          /\ Len(chunks') = Len(chunks) + 1
          /\ Len(chunks'[Len(chunks')]) = ChunkLength(splitRest, SplitPointPastHalf)]_vars

\* C30, amended: the separator that is accepted is the first one in the
\* order whose last occurrence within the first maximum-length characters
\* begins at an index greater than the maximum length divided by two
\* (rounded down); with none, the split is at exactly the maximum length.
C30_SeparatorPastHalf ==
    [][(splitPc = "loop" /\ Len(splitRest) > MaxMessageLength) =>
          /\ Len(chunks') = Len(chunks) + 1
          /\ Len(chunks'[Len(chunks')]) = ChunkLength(splitRest, SeparatorBeginsPastHalf)]_vars

\* A text with a newline before the half and a space after it was cut after
\* the space; the rest, with its only space right at the half, was cut at
\* the maximum length.
C30_Witness ==
    /\ Len(chunks) >= 2
    /\ chunks[1] = <<NL, "a", "a", " ">>
    /\ Len(chunks[2]) = MaxMessageLength
    /\ chunks[2][MaxMessageLength \div 2 + 1] = " "
    /\ \A i \in 1..MaxMessageLength : i # MaxMessageLength \div 2 + 1 => chunks[2][i] = "a"


\* C29: for a message in a thread whose posts get_thread returned, the
\* context holds the most recent MaxContextMessages posts of the thread
\* other than the current post, in thread order; a thread with more than
\* that many other posts gives exactly that many context lines.
C29_MostRecentOthers ==
    (/\ thContext.done
     /\ thMessage.is_thread
     /\ thMessage.root_id # ""
     /\ thread_data.result = "data") =>
        LET others == SelectSeq(thread_data.order,
                                LAMBDA p : p # thMessage.post_id)
            expected == slice_last(others, MaxContextMessages)
            lines == thContext.context.formatted
        IN  /\ Len(lines) = Len(expected)
            /\ \A i \in 1..Len(lines) : lines[i].post = expected[i]
            /\ Len(others) > MaxContextMessages => Len(lines) = MaxContextMessages


\* C24: when the answer-service call or a later step of process_chat_message
\* raised, the pipeline has tried to remove the processing indicator, has
\* tried to post the apology, every apology posted has the fixed text and is
\* rooted at the thread root of a threaded message and at the original post
\* otherwise, and the pipeline has returned without raising, also when the
\* removal or the post failed.
C24_ErrorPathApologises ==
    /\ evPc # "raised"
    /\ (evPc = "done" /\ evOut.failure \in {"answer", "send"}) =>
          /\ evOut.removeTried
          /\ evOut.apologyTried
          /\ Len(evOut.apologies) <= 1
          /\ \A i \in 1..Len(evOut.apologies) :
                /\ evOut.apologies[i].message = ErrorMsg
                /\ evOut.apologies[i].root_id =
                      IF event.root_id # "" THEN event.root_id ELSE PostId

\* The answer to a post outside a thread could not be sent, the apology was
\* posted under the original post, and the indicator could not be removed.
C24_Witness ==
    /\ evPc = "done"
    /\ evOut.failure = "send"
    /\ event.root_id = ""
    /\ Len(evOut.apologies) = 1
    /\ evOut.apologies[1].root_id = PostId
    /\ evOut.reactions = 1

\* C27: no failure while an event is handled leaves _handle_event as an
\* exception, and no step of the handler changes a listener (its position,
\* its attempt counter), a connection table or the cache, of the event's
\* tenant or of another.
C27_HandlerFailuresContained ==
    /\ [](evPc # "raised")
    /\ [][evPc' # evPc =>
            UNCHANGED <<listenerVars, botVars, cacheVars>>]_vars

\* The config lookup of should_respond raised; the event is dropped with
\* nothing posted, and the tenant's listener is listening with no failed
\* attempt counted.
C27_Witness ==
    /\ evPc = "done"
    /\ evOut.failure = "should_respond"
    /\ evOut.posts = 0
    /\ evOut.asked = <<>>
    /\ lstate[EventTenant] = "listening"
    /\ attempts[EventTenant] = 0


\* The tenants of the cache's tenant list.
EligibleTenants == {x[1] : x \in get_all_tenants_with_bots}

\* C25: while stop() is not running, no step removes a tenant from _drivers,
\* _driver_wrappers or _websocket_tasks, whether or not the tenant is still
\* in the tenant list of the cache after a refresh: a periodic cycle only
\* adds entries.
C25_NoCycleRemovesEntries ==
    [][(stopSt.pc = "idle" /\ stopSt'.pc = "idle") =>
          /\ drivers \subseteq drivers'
          /\ driver_wrappers \subseteq driver_wrappers'
          /\ websocket_tasks \subseteq websocket_tasks']_vars

\* A connected tenant became gated, the next refresh dropped it from the
\* cache, the periodic round over the new tenant list is over, and the
\* tenant still has its driver, its wrapper and its listener task.
C25_Witness ==
    \E t \in Tenants :
        /\ t \in gatedTenants
        /\ t \notin EligibleTenants
        /\ conn["periodic"].pc = "sleep"
        /\ conn["periodic"].seen = cycle
        /\ cycle >= 2
        /\ ra.result = "ok"
        /\ t \in drivers
        /\ t \in driver_wrappers
        /\ t \in websocket_tasks
        /\ stopSt.pc = "idle"


\* C31: when should_respond answers yes, the persona it returns is the
\* channel's persona override whenever the channel has one, also the
\* override id 0, and the team's default persona only when it has none.
C31_OverrideWins ==
    (evCtx.present /\ evCtx.should_respond) =>
        evCtx.persona_id =
            IF channel_config.persona_override_id # NoPersona
            THEN channel_config.persona_override_id
            ELSE default_persona_id


\* The channel ids of a set of rows, and of the argument list.
RowIds(rows) == {r.channel_id : r \in rows}
CurrentIds == {current_channels[i].channel_id : i \in DOMAIN current_channels}

\* C32: a call of sync_channel_configs that returns gives the number of
\* current channel ids that were not stored, the number of stored channel
\* ids that are not current, and the number of channels in both whose stored
\* name or type differed from the current one and was brought up to date;
\* afterwards the stored channel ids are the current ones with a current
\* name and type; a second call with the same input returns (0, 0, 0) and
\* changes nothing.
C32_SyncCountsAndIdempotence ==
    syncOut.returned =>
        /\ syncOut.counts[1] = Cardinality(CurrentIds \ RowIds(syncOut.before))
        /\ syncOut.counts[2] = Cardinality(RowIds(syncOut.before) \ CurrentIds)
        /\ syncOut.counts[3] =
              Cardinality({id \in CurrentIds \cap RowIds(syncOut.before) :
                              \E r \in syncOut.before :
                                  r.channel_id = id /\ r \notin channel_rows})
        /\ RowIds(channel_rows) = CurrentIds
        /\ Cardinality(channel_rows) = Cardinality(CurrentIds)
        /\ \A r \in channel_rows :
              \E i \in DOMAIN current_channels : current_channels[i] = r
        /\ syncOut.earlier =>
              /\ syncOut.counts = NoCounts
              /\ channel_rows = syncOut.before

\* After a call that returned, the second call with the same list of two
\* channels returned (0, 0, 0) and left the two rows as they were.
C32_Witness ==
    /\ syncOut.calls = 2
    /\ syncOut.returned
    /\ syncOut.earlier
    /\ syncOut.counts = NoCounts
    /\ channel_rows =
          {[channel_id |-> "c1", channel_name |-> "n1", channel_type |-> "P"],
           [channel_id |-> "c2", channel_name |-> "n2", channel_type |-> "O"]}
    /\ current_channels[1].channel_id = "c1"


\* The replies of a register command that report a failure.
FailureReplies ==
    {"Usage", "AlreadyRegistered", "InvalidFormat", "KeyNotFound", "KeyUsed", "Generic"}

\* C34: when a register command ends with a failure reply, the TeamConfig
\* rows and the four maps of the cache are what they were when the command
\* was received.
C34_FailedRegistrationBindsNothing ==
    [][(/\ \E p \in Procs : proc'[p].pc = "idle"
                            /\ (proc[p].pc # "idle" \/ cmds' # cmds)
        /\ lastReply'.cmd = "register"
        /\ lastReply'.reply \in FailureReplies) =>
          /\ lastReply'.before.rows = teamConfig'
          /\ lastReply'.before.team_tenants = team_tenants'
          /\ lastReply'.before.api_keys = api_keys'
          /\ lastReply'.before.server_urls = server_urls'
          /\ lastReply'.before.bot_tokens = bot_tokens']_vars


\* The teams routed to tenant t in a team map.
RoutedTo(routes, t) == {m \in DOMAIN routes : routes[m] = t}

\* C35: no step creates a team route, an API key, a server url or a bot
\* token in the cache for a tenant that is gated when the step writes.
C35_NoEntryForGatedTenant ==
    [][\A t \in gatedTenants' :
          /\ RoutedTo(team_tenants', t) \subseteq RoutedTo(team_tenants, t)
          /\ t \in DOMAIN api_keys' => t \in DOMAIN api_keys
          /\ t \in DOMAIN server_urls' => t \in DOMAIN server_urls
          /\ t \in DOMAIN bot_tokens' => t \in DOMAIN bot_tokens]_vars


\* C36: for an accepted message the pipeline posts chunks of the answer or
\* the apology, never both: when a chunk of the answer has been posted, no
\* apology is posted.
C36_AnswerOrApology ==
    ~(/\ evOut.posts - Len(evOut.apologies) > 0
      /\ Len(evOut.apologies) > 0)


LoadedInCycle(t) ==
    /\ t \notin ra.gated
    /\ t \notin ra.failed
    /\ EnabledTeamIds(t) # {}

\* C40: when refresh_all completes successfully, every route of the cache
\* leads from a team that is enabled and bound in storage to a tenant loaded
\* in this cycle, and every API key, server url and bot token belongs to a
\* tenant loaded in this cycle; nothing older is left, also no entry that
\* refresh_team added.
C40_OnlyThisCyclesEntries ==
    [][(ra.pc = "store_init" /\ ra'.pc = "idle") =>
          /\ \A m \in DOMAIN team_tenants' :
                /\ LoadedInCycle(team_tenants'[m])
                /\ m \in EnabledTeamIds(team_tenants'[m])
          /\ \A t \in (DOMAIN api_keys') \cup (DOMAIN server_urls')
                          \cup (DOMAIN bot_tokens') : LoadedInCycle(t)
          /\ team_tenants' = ra.new_team_tenants
          /\ api_keys' = ra.new_api_keys]_vars

\* refresh_team had stored the route of team m2 to the gated tenant t2; a
\* refresh_all completed afterwards and the cache holds tenant t1 alone.
C40_Witness ==
    /\ gatedTenants = {"t2"}
    /\ EnabledTeamIds("t2") = {"m2"}
    /\ lastReply.cmd = "refresh_team"
    /\ lastReply.team = "m2"
    /\ lastReply.reply = "returned"
    /\ dbKeyGen["t2"] >= 1
    /\ ra.pc = "idle"
    /\ ra.result = "ok"
    /\ mapCycle = [team |-> cycle, keys |-> cycle, urls |-> cycle, tokens |-> cycle]
    /\ DOMAIN api_keys = {"t1"}
    /\ DOMAIN team_tenants = {"m1"}



\* C33: in every reachable state, also while the periodic round runs during
\* the round of start(), a tenant has at most one connection and one
\* running listener task, and every running listener task is the one in
\* _websocket_tasks: no caller of _connect_server has stored a connection
\* and a task over an entry whose own task had not ended.
C33_OneConnectionPerTenant ==
    \A c \in Callers : conn[c].replaced = {}


\* C39: once the listener of a tenant has ended at the attempt ceiling while
\* the bot runs, the tenant stays in the three connection tables, its
\* listener stays ended, and no round of _connect_all_servers starts a
\* connect for it, in every later step and also while the cache lists the
\* tenant.
C39_HaltedTenantStaysSkipped ==
    [][\A t \in Tenants :
          (running /\ t \in drivers /\ lstate[t] = "stopped"
              /\ attempts[t] >= MAX_RECONNECT_ATTEMPTS) =>
             /\ t \in drivers'
             /\ t \in driver_wrappers'
             /\ t \in websocket_tasks'
             /\ lstate'[t] = "stopped"
             /\ attempts'[t] = attempts[t]
             /\ \A c \in Callers :
                   /\ conn'[c].cur # t
                   /\ t \in conn'[c].attempted => t \in conn[c].attempted]_vars

\* The periodic task has finished a round in which it passed over tenant t,
\* whose listener had ended at the ceiling before, while the cache listed t.
C39_Witness ==
    \E t \in Tenants :
        /\ running
        /\ lstate[t] = "stopped"
        /\ attempts[t] = MAX_RECONNECT_ATTEMPTS
        /\ t \in drivers
        /\ t \in conn["periodic"].haltedSkipped
        /\ t \in conn["periodic"].snapshot
        /\ conn["periodic"].pc = "sleep"
        /\ t \in {x[1] : x \in get_all_tenants_with_bots}


\* C38: after stop() has completed, the four cache maps and the three
\* connection tables are empty and stay empty: no coroutine that was in
\* flight when stop() ran, a refresh_team or a connect of the periodic
\* round, stores an entry afterwards.
C38_EmptyAfterStop ==
    stopSt.pc = "done" =>
        /\ team_tenants = EmptyDict
        /\ api_keys = EmptyDict
        /\ server_urls = EmptyDict
        /\ bot_tokens = EmptyDict
        /\ drivers = {}
        /\ driver_wrappers = {}
        /\ websocket_tasks = {}

=============================================================================
